---- MODULE Spec2Model ----
(***************************************************************************)
(* Model of the peak/peek terminal dashboard session controller:           *)
(* app.Model.Update / View (src/src/app/app.go) and the ui components it   *)
(* drives (context selector, namespace selector, timeframe input, left     *)
(* pane, right pane with nodes/events tables, notification manager).       *)
(*                                                                         *)
(* Strings that the code inspects character by character (search queries,  *)
(* context / namespace / menu names) are sequences of one-character        *)
(* strings.  Wall-clock time is the integer variable now, in seconds; the  *)
(* zero time.Time is ZeroTime.  Goroutines are records in bags; each of    *)
(* their steps is an action that interleaves with the event loop.          *)
(***************************************************************************)
EXTENDS Integers, Sequences, FiniteSets, Bags, TLC

\* ---------------------------------------------------------------------------
\* Bounds of the model (not program constants)
\* ---------------------------------------------------------------------------
MaxQuery == 1

MaxTime == 1

MaxFetch == 2

MaxNotifs == 1
\* the last second of the wall clock in the runs that watch the refresh
\* intervals: the first fetch starts with the first tick, and the longest
\* interval has run out 31 seconds after it
MaxClock == 32

\* the longest menu search query of the menu scenario
MaxSearch == 2

\* the longest picker query of the picker scenario
MaxPick == 3

\* the notification scenario: the longest queue and the last clock reading
MaxQueue == 2

MaxAge == 8

\* the viewer scenario: how often a viewer is opened, and the longest log buffer
MaxOpens == 1

MaxLines == 22

\* the last clock reading of the notification queue scenario
MaxStamp == 5

\* the YAML scenario: the most fetchYAML goroutines alive at once
MaxYamlOpens == 2

\* ---------------------------------------------------------------------------
\* Program constants
\* ---------------------------------------------------------------------------
NotificationLimit == 10

DefaultDuration == 5

ErrorDuration == 7

NodesInterval == 30

EventsInterval == 15

MetricsInterval == 30

DefaultTimeframe == 10

MaxTimeframe == 1440

ZeroTime == -1

FocusLeftPane == 0

FocusRightPane == 1

\* ---------------------------------------------------------------------------
\* Strings
\* ---------------------------------------------------------------------------
UpperToLower ==
  [c \in {"A", "E", "N", "O", "P", "W"} |->
     CASE c = "A" -> "a" [] c = "E" -> "e" [] c = "N" -> "n"
       [] c = "O" -> "o" [] c = "P" -> "p" [] c = "W" -> "w"]

ToLower(s) ==
  [i \in 1..Len(s) |-> IF s[i] \in DOMAIN UpperToLower THEN UpperToLower[s[i]] ELSE s[i]]

HasPrefix(s, prefix) ==
  Len(prefix) <= Len(s) /\ SubSeq(s, 1, Len(prefix)) = prefix

Contains(s, substr) ==
  \E i \in 0..(Len(s) - Len(substr)) : SubSeq(s, i + 1, i + Len(substr)) = substr

\* The loop shared by fuzzyMatch and fuzzyMatchContext: i and patternIdx are
\* the (0-based) loop variables, the result is the final patternIdx.
RECURSIVE fuzzyLoop(_, _, _, _)
fuzzyLoop(str, pattern, i, patternIdx) ==
  IF i < Len(str) /\ patternIdx < Len(pattern)
  THEN fuzzyLoop(str, pattern, i + 1,
                 IF str[i + 1] = pattern[patternIdx + 1] THEN patternIdx + 1 ELSE patternIdx)
  ELSE patternIdx

\* a match that wants the pattern as one contiguous piece
fuzzyMatchContiguous(str, pattern) == Contains(str, pattern)

fuzzyMatch(str, pattern) ==
  IF pattern = <<>> THEN TRUE ELSE fuzzyLoop(str, pattern, 0, 0) = Len(pattern)

fuzzyMatchContext(str, pattern) ==
  IF pattern = <<>> THEN TRUE ELSE fuzzyLoop(str, pattern, 0, 0) = Len(pattern)

\* ---------------------------------------------------------------------------
\* Keys (tea.KeyMsg): msg.String() of the keys the model's user presses
\* ---------------------------------------------------------------------------
QuitKey == "ctrl+q"

SpecialKeys == {"ctrl+q", "esc", "enter", "up", "down", "backspace", "ctrl+n", "ctrl+k"}

CharKeys == {"1", "2", "/", "t"}

Keys == SpecialKeys \cup CharKeys

\* ---------------------------------------------------------------------------
\* The cluster configuration the external collaborator serves
\* ---------------------------------------------------------------------------
\* kubeconfig context names, sorted as NewKubeConfig sorts them
Contexts == << <<"t", "1">>, <<"t", "2">> >>

ContextNames == {Contexts[i] : i \in 1..Len(Contexts)}

NsDefault == <<"d", "e", "f", "a", "u", "l", "t">>

NsKubeSystem == <<"k", "u", "b", "e", "-", "s", "y", "s", "t", "e", "m">>

AllNamespaces == <<"A", "l", "l", " ", "n", "a", "m", "e", "s", "p", "a", "c", "e", "s">>

\* what listNamespaces returns under a context when the cluster answers
ClusterNamespaces(ctx) ==
  IF ctx = Contexts[1] THEN <<NsDefault>> ELSE <<NsDefault, NsKubeSystem>>

\* the namespace the kubeconfig records for a context ("" when it records none)
ConfigNamespace(ctx) ==
  IF ctx = Contexts[1] THEN <<>> ELSE NsKubeSystem

\* categorized failure reasons of a cluster call
Reasons == {"timeout", "unauthorized"}

NoError == "nil"

\* ---------------------------------------------------------------------------
\* Generic sequence helpers
\* ---------------------------------------------------------------------------
\* 0-based index of the first element of seq satisfying Test, or -1
FirstIndex(seq, Test(_)) ==
  IF \E i \in 1..Len(seq) : Test(seq[i])
  THEN (CHOOSE i \in 1..Len(seq) : Test(seq[i]) /\ \A j \in 1..(i - 1) : ~Test(seq[j])) - 1
  ELSE -1

DropLast(s) == SubSeq(s, 1, Len(s) - 1)

\* ---------------------------------------------------------------------------
\* ui.ContextSelector (cursor is 0-based as in the code)
\* ---------------------------------------------------------------------------
SpinnerFrames == 10

NilContextSelector ==
  [nil |-> TRUE, contexts |-> <<>>, filteredContexts |-> <<>>, cursor |-> 0,
   SearchQuery |-> <<>>, isOpen |-> FALSE, selectedContext |-> <<>>, originalContext |-> <<>>,
   isConnecting |-> FALSE, connectionError |-> "", spinnerFrame |-> 0]

\* a picker that is built closed
NewContextSelectorClosed(contexts, currentContext) ==
  LET found == FirstIndex(contexts, LAMBDA c : c = currentContext)
  IN [nil |-> FALSE, contexts |-> contexts, filteredContexts |-> contexts,
      cursor |-> IF found >= 0 THEN found ELSE 0,
      SearchQuery |-> <<>>, isOpen |-> FALSE,
      selectedContext |-> currentContext, originalContext |-> currentContext,
      isConnecting |-> FALSE, connectionError |-> "", spinnerFrame |-> 0]


NewContextSelector(contexts, currentContext) ==
  LET found == FirstIndex(contexts, LAMBDA c : c = currentContext)
  IN [nil |-> FALSE, contexts |-> contexts, filteredContexts |-> contexts,
      cursor |-> IF found >= 0 THEN found ELSE 0,
      SearchQuery |-> <<>>, isOpen |-> TRUE,
      selectedContext |-> currentContext, originalContext |-> currentContext,
      isConnecting |-> FALSE, connectionError |-> "", spinnerFrame |-> 0]

ContextSelectorOpen(cs) ==
  LET found == FirstIndex(cs.contexts, LAMBDA c : c = cs.selectedContext)
  IN [cs EXCEPT !.isOpen = TRUE, !.SearchQuery = <<>>, !.filteredContexts = cs.contexts,
                !.isConnecting = FALSE, !.connectionError = "",
                !.cursor = IF found >= 0 THEN found ELSE @]

ContextSelectorClose(cs) ==
  [cs EXCEPT !.isOpen = FALSE, !.SearchQuery = <<>>, !.cursor = 0]

ContextSelectorMoveUp(cs) ==
  IF cs.cursor > 0 THEN [cs EXCEPT !.cursor = @ - 1] ELSE cs

ContextSelectorMoveDown(cs) ==
  IF cs.cursor < Len(cs.filteredContexts) - 1 THEN [cs EXCEPT !.cursor = @ + 1] ELSE cs

ContextSelectorSelect(cs) ==
  IF cs.cursor < Len(cs.filteredContexts)
  THEN [cs EXCEPT !.selectedContext = cs.filteredContexts[cs.cursor + 1]]
  ELSE cs

\* SetConnecting that clears the error but never raises the flag
SetConnectingErrorOnly(cs, connecting) ==
  [cs EXCEPT !.connectionError = IF connecting THEN "" ELSE @]

SetConnecting(cs, connecting) ==
  [cs EXCEPT !.isConnecting = connecting,
             !.connectionError = IF connecting THEN "" ELSE @]

SetConnectionError(cs, err) ==
  [cs EXCEPT !.connectionError = err, !.isConnecting = FALSE]

ClearError(cs) == [cs EXCEPT !.connectionError = ""]

UpdateSpinner(cs) ==
  IF cs.isConnecting THEN [cs EXCEPT !.spinnerFrame = (@ + 1) % SpinnerFrames] ELSE cs

\* a filter that lists the subsequence-only matches before the prefix matches
filterContextsPrefixLast(contexts, SearchQuery) ==
  IF SearchQuery = <<>> THEN contexts
  ELSE LET query == ToLower(SearchQuery)
       IN SelectSeq(contexts, LAMBDA c : ~HasPrefix(ToLower(c), query)
                                         /\ fuzzyMatchContext(ToLower(c), query))
          \o SelectSeq(contexts, LAMBDA c : HasPrefix(ToLower(c), query))

filterContexts(contexts, SearchQuery) ==
  IF SearchQuery = <<>> THEN contexts
  ELSE LET query == ToLower(SearchQuery)
       IN SelectSeq(contexts, LAMBDA c : HasPrefix(ToLower(c), query))
          \o SelectSeq(contexts, LAMBDA c : ~HasPrefix(ToLower(c), query)
                                            /\ fuzzyMatchContext(ToLower(c), query))

ContextSelectorUpdateSearch(cs, query) ==
  [cs EXCEPT !.SearchQuery = query,
             !.filteredContexts = filterContexts(cs.contexts, query),
             !.cursor = 0]

\* ---------------------------------------------------------------------------
\* ui.NamespaceSelector
\* ---------------------------------------------------------------------------
NsKubePublic == <<"k", "u", "b", "e", "-", "p", "u", "b", "l", "i", "c">>

NsKubeNodeLease ==
  <<"k", "u", "b", "e", "-", "n", "o", "d", "e", "-", "l", "e", "a", "s", "e">>

FallbackNamespaces == <<NsDefault, NsKubeSystem, NsKubePublic, NsKubeNodeLease>>

NilNamespaceSelector ==
  [nil |-> TRUE, namespaces |-> <<>>, filteredNamespaces |-> <<>>, cursor |-> 0,
   SearchQuery |-> <<>>, isOpen |-> FALSE, selectedNamespace |-> <<>>]

NewNamespaceSelector(namespaces, currentNamespace) ==
  LET nss == IF Len(namespaces) = 0 THEN FallbackNamespaces ELSE namespaces
      namespacesWithAll == <<AllNamespaces>> \o nss
  IN [nil |-> FALSE, namespaces |-> namespacesWithAll,
      filteredNamespaces |-> namespacesWithAll, cursor |-> 0, SearchQuery |-> <<>>,
      isOpen |-> FALSE,
      selectedNamespace |-> IF currentNamespace = <<>> THEN NsDefault ELSE currentNamespace]

UpdateNamespaces(ns, namespaces, currentNamespace) ==
  LET namespacesWithAll == <<AllNamespaces>> \o namespaces
  IN [ns EXCEPT !.namespaces = namespacesWithAll,
                !.filteredNamespaces = namespacesWithAll,
                !.selectedNamespace = currentNamespace,
                !.cursor = 0, !.SearchQuery = <<>>]

NamespaceSelectorOpen(ns) ==
  [ns EXCEPT !.isOpen = TRUE, !.SearchQuery = <<>>, !.cursor = 0,
             !.filteredNamespaces = ns.namespaces]

\* a close that also forgets the selected namespace
NamespaceSelectorCloseForgets(ns) ==
  [ns EXCEPT !.isOpen = FALSE, !.SearchQuery = <<>>, !.cursor = 0,
             !.selectedNamespace = <<>>]

NamespaceSelectorClose(ns) ==
  [ns EXCEPT !.isOpen = FALSE, !.SearchQuery = <<>>, !.cursor = 0]

GetSelectedNamespace(ns) ==
  IF ns.selectedNamespace = <<>> THEN AllNamespaces ELSE ns.selectedNamespace

NamespaceSelectorMoveUp(ns) ==
  IF ns.cursor > 0 THEN [ns EXCEPT !.cursor = @ - 1] ELSE ns

NamespaceSelectorMoveDown(ns) ==
  IF ns.cursor < Len(ns.filteredNamespaces) - 1 THEN [ns EXCEPT !.cursor = @ + 1] ELSE ns

NamespaceSelectorSelect(ns) ==
  IF ns.cursor < Len(ns.filteredNamespaces)
  THEN LET selectedOption == ns.filteredNamespaces[ns.cursor + 1]
       IN NamespaceSelectorClose(
            [ns EXCEPT !.selectedNamespace =
                         IF selectedOption = AllNamespaces THEN <<>> ELSE selectedOption])
  ELSE ns

\* a filter with one tier: every match in original order
filterNamespacesOneTier(namespaces, SearchQuery) ==
  IF SearchQuery = <<>> THEN namespaces
  ELSE SelectSeq(namespaces, LAMBDA n : fuzzyMatch(ToLower(n), ToLower(SearchQuery)))

filterNamespaces(namespaces, SearchQuery) ==
  IF SearchQuery = <<>> THEN namespaces
  ELSE LET query == ToLower(SearchQuery)
       IN SelectSeq(namespaces, LAMBDA n : HasPrefix(ToLower(n), query))
          \o SelectSeq(namespaces, LAMBDA n : ~HasPrefix(ToLower(n), query)
                                              /\ fuzzyMatch(ToLower(n), query))

NamespaceSelectorUpdateSearch(ns, query) ==
  [ns EXCEPT !.SearchQuery = query,
             !.filteredNamespaces = filterNamespaces(ns.namespaces, query),
             !.cursor = 0]

\* ---------------------------------------------------------------------------
\* ui.TimeframeInput
\* ---------------------------------------------------------------------------
Digits == {"0", "1", "2", "3", "4", "5", "6", "7", "8", "9"}

NewTimeframeInput == [isOpen |-> FALSE, input |-> <<>>]

TimeframeInputOpen(ti) == [ti EXCEPT !.isOpen = TRUE, !.input = <<>>]

TimeframeInputClose(ti) == [ti EXCEPT !.isOpen = FALSE, !.input = <<>>]

AddChar(ti, char) ==
  IF char \in Digits THEN [ti EXCEPT !.input = Append(@, char)] ELSE ti

Backspace(ti) ==
  IF Len(ti.input) > 0 THEN [ti EXCEPT !.input = DropLast(@)] ELSE ti

\* strconv.Atoi: an optional sign, then one or more decimal digits; anything
\* else (the empty string too) is an error
DigitValue ==
  [c \in Digits |->
     CASE c = "0" -> 0 [] c = "1" -> 1 [] c = "2" -> 2 [] c = "3" -> 3 [] c = "4" -> 4
       [] c = "5" -> 5 [] c = "6" -> 6 [] c = "7" -> 7 [] c = "8" -> 8 [] c = "9" -> 9]

RECURSIVE AtoiDigits(_)
AtoiDigits(s) ==
  IF s = <<>> THEN 0 ELSE 10 * AtoiDigits(DropLast(s)) + DigitValue[s[Len(s)]]

Signs == {"+", "-"}

Unsigned(s) == IF s # <<>> /\ s[1] \in Signs THEN Tail(s) ELSE s

AtoiOk(s) == Unsigned(s) # <<>> /\ \A i \in 1..Len(Unsigned(s)) : Unsigned(s)[i] \in Digits

Atoi(s) ==
  IF s[1] = "-" THEN 0 - AtoiDigits(Unsigned(s)) ELSE AtoiDigits(Unsigned(s))

\* ---------------------------------------------------------------------------
\* models.NavItem / ui.LeftPane
\* ---------------------------------------------------------------------------
NameOverview == <<"O", "v", "e", "r", "v", "i", "e", "w">>

NameNodes == <<"N", "o", "d", "e", "s">>

NameWorkloads == <<"W", "o", "r", "k", "l", "o", "a", "d", "s">>

NamePods == <<"P", "o", "d", "s">>

NameEvents == <<"E", "v", "e", "n", "t", "s">>

LowerNodes == <<"n", "o", "d", "e", "s">>

LowerEvents == <<"e", "v", "e", "n", "t", "s">>

LowerOverview == <<"o", "v", "e", "r", "v", "i", "e", "w">>

\* the menu configuration: a reduced navigation list in the shape of
\* GetInitialNavItems (leaf roots and one folder)
GetInitialNavItems ==
  << [Name |-> NameOverview, Items |-> <<>>, Expanded |-> FALSE],
     [Name |-> NameNodes, Items |-> <<>>, Expanded |-> FALSE],
     [Name |-> NameWorkloads, Items |-> <<NamePods>>, Expanded |-> FALSE],
     [Name |-> NameEvents, Items |-> <<>>, Expanded |-> FALSE] >>

NewLeftPane ==
  [NavItems |-> GetInitialNavItems, Cursor |-> 0, SelectedItem |-> <<>>,
   SearchMode |-> FALSE, SearchQuery |-> <<>>, FilteredItems |-> <<>>]

\* a models.VisibleItem; Parent is the 1-based index of the parent NavItem, 0 for nil
VisibleRoot(item) ==
  [Name |-> item.Name, Parent |-> 0, IsFolder |-> Len(item.Items) > 0, Level |-> 0]

VisibleChild(subItem, parentIndex) ==
  [Name |-> subItem, Parent |-> parentIndex, IsFolder |-> FALSE, Level |-> 1]

RECURSIVE FlattenFrom(_, _)
FlattenFrom(navItems, i) ==
  IF i > Len(navItems) THEN <<>>
  ELSE LET item == navItems[i]
       IN <<VisibleRoot(item)>>
          \o (IF item.Expanded
              THEN [j \in 1..Len(item.Items) |-> VisibleChild(item.Items[j], i)]
              ELSE <<>>)
          \o FlattenFrom(navItems, i + 1)

GetVisibleItems(lp) ==
  IF lp.SearchMode /\ lp.SearchQuery # <<>>
  THEN lp.FilteredItems
  ELSE FlattenFrom(lp.NavItems, 1)

LeftPaneMoveUp(lp) ==
  IF lp.Cursor > 0 THEN [lp EXCEPT !.Cursor = @ - 1] ELSE lp

\* a move down that does not stop at the last row
LeftPaneMoveDownNoStop(lp) == [lp EXCEPT !.Cursor = @ + 1]

LeftPaneMoveDown(lp) ==
  IF lp.Cursor < Len(GetVisibleItems(lp)) - 1 THEN [lp EXCEPT !.Cursor = @ + 1] ELSE lp

getNavItemIndex(lp, name) == FirstIndex(lp.NavItems, LAMBDA item : item.Name = name)

\* the cursor sent to the first row instead of the toggled root's row
CursorOnRootFirstRow(lp, itemName) == [lp EXCEPT !.Cursor = 0]

\* the cursor moved onto the root row called itemName, if the list has one
CursorOnRoot(lp, itemName) ==
  LET found == FirstIndex(GetVisibleItems(lp),
                          LAMBDA v : v.Name = itemName /\ v.Parent = 0)
  IN IF found >= 0 THEN [lp EXCEPT !.Cursor = found] ELSE lp

SelectedChildName(parentName, childName) == parentName \o <<" ", ">", " ">> \o childName

\* a toggle that reports a selection for a folder row too
ToggleExpandAlwaysSelects(lp) ==
  LET visibleItems == GetVisibleItems(lp)
  IN IF lp.Cursor < Len(visibleItems)
     THEN LET item == visibleItems[lp.Cursor + 1]
              navItemIndex == getNavItemIndex(lp, item.Name)
          IN IF item.Parent = 0
             THEN IF navItemIndex >= 0 /\ Len(lp.NavItems[navItemIndex + 1].Items) > 0
                  THEN << CursorOnRoot(
                            [lp EXCEPT !.NavItems[navItemIndex + 1].Expanded = ~@],
                            item.Name),
                          TRUE >>
                  ELSE << [lp EXCEPT !.SelectedItem = item.Name], TRUE >>
             ELSE << [lp EXCEPT !.SelectedItem =
                        SelectedChildName(lp.NavItems[item.Parent].Name, item.Name)],
                     TRUE >>
     ELSE << lp, FALSE >>

\* ToggleExpand returns <<the left pane afterwards, resourceSelected>>
ToggleExpand(lp) ==
  LET visibleItems == GetVisibleItems(lp)
  IN IF lp.Cursor < Len(visibleItems)
     THEN LET item == visibleItems[lp.Cursor + 1]
              navItemIndex == getNavItemIndex(lp, item.Name)
          IN IF item.Parent = 0
             THEN IF navItemIndex >= 0 /\ Len(lp.NavItems[navItemIndex + 1].Items) > 0
                  THEN << CursorOnRoot(
                            [lp EXCEPT !.NavItems[navItemIndex + 1].Expanded = ~@],
                            item.Name),
                          FALSE >>
                  ELSE << [lp EXCEPT !.SelectedItem = item.Name], TRUE >>
             ELSE << [lp EXCEPT !.SelectedItem =
                        SelectedChildName(lp.NavItems[item.Parent].Name, item.Name)],
                     TRUE >>
     ELSE << lp, FALSE >>

Collapse(lp) ==
  LET visibleItems == GetVisibleItems(lp)
  IN IF lp.Cursor < Len(visibleItems) /\ visibleItems[lp.Cursor + 1].Parent = 0
     THEN LET item == visibleItems[lp.Cursor + 1]
              idx == getNavItemIndex(lp, item.Name)
          IN CursorOnRoot(
               IF idx >= 0 THEN [lp EXCEPT !.NavItems[idx + 1].Expanded = FALSE] ELSE lp,
               item.Name)
     ELSE lp

filterItems(lp, rawQuery) ==
  IF rawQuery = <<>> THEN <<>>
  ELSE
    LET query == ToLower(rawQuery)
        parentMatches(item) == Contains(ToLower(item.Name), query)
        childMatches(subItem) == Contains(ToLower(subItem), query)
        hasMatchingChildren(item) ==
          \E j \in 1..Len(item.Items) : childMatches(item.Items[j])
        Rows(i) ==
          LET item == lp.NavItems[i]
              children == [j \in 1..Len(item.Items) |-> VisibleChild(item.Items[j], i)]
          IN IF parentMatches(item) \/ hasMatchingChildren(item)
             THEN <<VisibleRoot(item)>>
                  \o SelectSeq(children,
                               LAMBDA v : parentMatches(item) \/ childMatches(v.Name))
             ELSE <<>>
        F[i \in 0..Len(lp.NavItems)] == IF i = 0 THEN <<>> ELSE F[i - 1] \o Rows(i)
    IN F[Len(lp.NavItems)]

LeftPaneUpdateSearch(lp, query) ==
  [lp EXCEPT !.SearchQuery = query, !.FilteredItems = filterItems(lp, query), !.Cursor = 0]

\* a toggle that leaves the cursor at its index in the filtered view
ToggleSearchKeepsCursor(lp) ==
  IF ~lp.SearchMode
  THEN [lp EXCEPT !.SearchMode = TRUE]
  ELSE [lp EXCEPT !.SearchMode = FALSE, !.SearchQuery = <<>>, !.FilteredItems = <<>>]

ToggleSearch(lp) ==
  LET visibleItems == GetVisibleItems(lp)
      onItem == lp.SearchMode /\ lp.Cursor < Len(visibleItems)
      currentItem == visibleItems[lp.Cursor + 1]
  IN IF ~lp.SearchMode
     THEN [lp EXCEPT !.SearchMode = TRUE]
     ELSE LET off == [lp EXCEPT !.SearchMode = FALSE, !.SearchQuery = <<>>,
                                !.FilteredItems = <<>>]
              newVisibleItems == GetVisibleItems(off)
              found ==
                IF onItem /\ currentItem.Name # <<>>
                THEN FirstIndex(newVisibleItems,
                       LAMBDA v : /\ v.Name = currentItem.Name
                                  /\ \/ currentItem.Parent = 0 /\ v.Parent = 0
                                     \/ /\ currentItem.Parent # 0
                                        /\ v.Parent # 0
                                        /\ off.NavItems[v.Parent].Name
                                             = off.NavItems[currentItem.Parent].Name)
                ELSE -1
          IN [off EXCEPT !.Cursor = IF found >= 0 THEN found ELSE 0]

\* ---------------------------------------------------------------------------
\* ui.NotificationManager (newest first)
\* ---------------------------------------------------------------------------
NotificationInfo == 0

NotificationWarning == 1

NotificationError == 2

NotificationSuccess == 3

\* a limit that cuts the queue at its head: the newest notification is dropped
LimitDropsNewest(notifs) ==
  IF Len(notifs) > NotificationLimit
  THEN SubSeq(notifs, Len(notifs) - NotificationLimit + 1, Len(notifs)) ELSE notifs

Limit(notifs) ==
  IF Len(notifs) > NotificationLimit THEN SubSeq(notifs, 1, NotificationLimit) ELSE notifs

AddNotification(notifs, notifType, title, t) ==
  Limit(<< [Type |-> notifType, Title |-> title, Timestamp |-> t,
            Duration |-> DefaultDuration] >> \o notifs)

AddError(notifs, title, t) ==
  Limit(<< [Type |-> NotificationError, Title |-> title, Timestamp |-> t,
            Duration |-> ErrorDuration] >> \o notifs)

AddInfo(notifs, title, t) == AddNotification(notifs, NotificationInfo, title, t)

AddSuccess(notifs, title, t) == AddNotification(notifs, NotificationSuccess, title, t)

\* a cleanup that keeps a notification whose age equals its duration
CleanExpiredLate(notifs, t) ==
  SelectSeq(notifs, LAMBDA n : t - n.Timestamp <= n.Duration)

CleanExpired(notifs, t) ==
  SelectSeq(notifs, LAMBDA n : t - n.Timestamp < n.Duration)

\* ---------------------------------------------------------------------------
\* ui.NodesTable / ui.EventsTable
\* ---------------------------------------------------------------------------
NilNodesTable ==
  [nil |-> TRUE, nodes |-> <<>>, lastUpdate |-> ZeroTime, contextName |-> <<>>,
   isLoading |-> FALSE, error |-> NoError]

NewNodesTable(contextName) ==
  [nil |-> FALSE, nodes |-> <<>>, lastUpdate |-> ZeroTime, contextName |-> contextName,
   isLoading |-> TRUE, error |-> NoError]

NilEventsTable ==
  [nil |-> TRUE, events |-> <<>>, lastUpdate |-> ZeroTime, contextName |-> <<>>,
   timeframeMin |-> 0, isLoading |-> FALSE, error |-> NoError]

NewEventsTable(contextName) ==
  [nil |-> FALSE, events |-> <<>>, lastUpdate |-> ZeroTime, contextName |-> contextName,
   timeframeMin |-> DefaultTimeframe, isLoading |-> TRUE, error |-> NoError]

\* a refresh that is due as soon as the interval is reached
SinceReaches(t, interval, clock) == t = ZeroTime \/ clock - t >= interval

\* time.Since(t) > interval; the zero time is centuries ago
SinceExceeds(t, interval, clock) == t = ZeroTime \/ clock - t > interval

NodesShouldUpdate(nt, clock) == SinceExceeds(nt.lastUpdate, NodesInterval, clock)

EventsShouldUpdate(et, clock) == SinceExceeds(et.lastUpdate, EventsInterval, clock)

SetTimeframe(et, minutes) ==
  IF minutes > 0
  THEN [et EXCEPT !.timeframeMin = minutes, !.lastUpdate = ZeroTime, !.events = <<>>]
  ELSE et

\* a validation that forgets the upper limit
HandleTimeframeInputNoLimit(et, input) ==
  IF ~AtoiOk(input) THEN << et, TRUE >>
  ELSE << SetTimeframe(et, Atoi(input)), Atoi(input) <= 0 >>

\* HandleTimeframeInput returns <<the events table afterwards, err # nil>>
HandleTimeframeInput(et, input) ==
  IF ~AtoiOk(input) THEN << et, TRUE >>
  ELSE LET minutes == Atoi(input)
       IN IF minutes <= 0 THEN << et, TRUE >>
          ELSE IF minutes > MaxTimeframe THEN << et, TRUE >>
          ELSE << SetTimeframe(et, minutes), FALSE >>

\* NodesTable.Render / EventsTable.Render: which of the four screens is drawn
NodesTableRender(nt) ==
  IF nt.isLoading /\ Len(nt.nodes) = 0 THEN "loading"
  ELSE IF nt.error # NoError THEN "error"
  ELSE IF Len(nt.nodes) = 0 THEN "empty"
  ELSE "table"

EventsTableRender(et) ==
  IF et.isLoading /\ Len(et.events) = 0 /\ et.lastUpdate = ZeroTime THEN "loading"
  ELSE IF et.error # NoError THEN "error"
  ELSE IF Len(et.events) = 0 THEN "empty"
  ELSE "table"

\* what the cluster returns for a list call: the items are tagged with the
\* context (and time window) they were listed under
NodesOf(contextName) == << [ctx |-> contextName] >>

EventsOf(contextName, timeframeMin) ==
  { <<>>, << [ctx |-> contextName, tf |-> timeframeMin] >> }

\* ---------------------------------------------------------------------------
\* ui.ConfirmationDialog (cursor 0 is Yes, 1 is No)
\* ---------------------------------------------------------------------------
CursorYes == 0

CursorNo == 1

ActionDelete == "delete"

ActionRestart == "restart"

NewConfirmationDialog ==
  [isOpen |-> FALSE, title |-> "", message |-> "", podName |-> "", namespace |-> <<>>,
   action |-> "", confirmed |-> FALSE, cursor |-> CursorNo]

\* an Open that leaves the cursor where it was
ConfirmationDialogOpenKeepsCursor(cd, action, podName, namespace) ==
  [cd EXCEPT !.isOpen = TRUE, !.podName = podName, !.namespace = namespace,
             !.action = action, !.confirmed = FALSE,
             !.title = IF action = ActionDelete THEN "Delete Pod" ELSE "Restart Pod",
             !.message = IF action = ActionDelete THEN "permanently delete"
                         ELSE "delete and recreate"]

ConfirmationDialogOpen(cd, action, podName, namespace) ==
  [cd EXCEPT !.isOpen = TRUE, !.podName = podName, !.namespace = namespace,
             !.action = action, !.confirmed = FALSE, !.cursor = CursorNo,
             !.title = IF action = ActionDelete THEN "Delete Pod" ELSE "Restart Pod",
             !.message = IF action = ActionDelete THEN "permanently delete"
                         ELSE "delete and recreate"]

ConfirmationDialogClose(cd) ==
  [cd EXCEPT !.isOpen = FALSE, !.confirmed = FALSE, !.cursor = CursorNo]

MoveLeft(cd) == [cd EXCEPT !.cursor = CursorYes]

MoveRight(cd) == [cd EXCEPT !.cursor = CursorNo]

\* Confirm returns <<the dialog afterwards, the value returned>>: confirmed is
\* written, Close() runs, and the field is read again for the return
Confirm(cd) ==
  LET set == [cd EXCEPT !.confirmed = (cd.cursor = CursorYes)]
      closed == ConfirmationDialogClose(set)
  IN << closed, closed.confirmed >>

\* ---------------------------------------------------------------------------
\* State
\* ---------------------------------------------------------------------------
\* ---------------------------------------------------------------------------
\* ui.YAMLViewer / ui.LogsViewer
\* ---------------------------------------------------------------------------
VisibleLines == 20

LogLimit == 1000

\* the text GetPodYAML returns
\* the manifest GetPodYAML returns for a pod, as its lines ("" is no line)
PodYAML(podName) == << "kind: Pod", podName >>

NewYAMLViewer ==
  [isOpen |-> FALSE, podName |-> "", yamlContent |-> <<>>, scrollOffset |-> 0,
   error |-> "", isLoading |-> FALSE]

YAMLViewerOpen(yv, podName) ==
  [yv EXCEPT !.isOpen = TRUE, !.podName = podName, !.yamlContent = <<>>,
             !.scrollOffset = 0, !.error = "", !.isLoading = TRUE]

YAMLViewerClose(yv) ==
  [yv EXCEPT !.isOpen = FALSE, !.yamlContent = <<>>, !.scrollOffset = 0,
             !.isLoading = FALSE]

\* the writes of fetchYAML once GetPodYAML(..., podName) has returned err
fetchYAML(yv, podName, err) ==
  [yv EXCEPT !.error = IF err # NoError THEN err ELSE @,
             !.yamlContent = IF err = NoError THEN PodYAML(podName) ELSE @,
             !.isLoading = FALSE]

\* logs is the number of lines in the buffer; cancel is 0 for nil and otherwise
\* the number of the fetch whose context the stored cancel function ends
NewLogsViewer ==
  [isOpen |-> FALSE, logs |-> 0, scrollOffset |-> 0, isFollowing |-> FALSE,
   error |-> "", cancel |-> 0]

LogsViewerOpen(lv) ==
  [lv EXCEPT !.isOpen = TRUE, !.logs = 0, !.scrollOffset = 0, !.error = "",
             !.isFollowing = TRUE]

LogsViewerClose(lv) ==
  [lv EXCEPT !.isOpen = FALSE, !.logs = 0, !.scrollOffset = 0, !.isFollowing = FALSE,
             !.cancel = 0]

MaxScroll(logs) == IF logs - VisibleLines < 0 THEN 0 ELSE logs - VisibleLines

\* the follow loop's handling of one line
AppendFollowed(lv) ==
  LET appended == lv.logs + 1
      limited == IF appended > LogLimit THEN LogLimit ELSE appended
  IN [lv EXCEPT !.logs = limited,
                !.scrollOffset = IF lv.isFollowing THEN MaxScroll(limited) ELSE @]

\* ---------------------------------------------------------------------------
\* ui.PodsTable (pods_table.go); a pod is its name, namespace, status and node
\* ---------------------------------------------------------------------------
Alphabet ==
  <<" ", "-", "1", "2", "a", "b", "d", "e", "g", "i", "n", "o", "p", "r", "w">>

CharRank(c) == CHOOSE i \in 1..Len(Alphabet) : Alphabet[i] = c

\* a < b for Go strings
RECURSIVE StringLess(_, _)
StringLess(a, b) ==
  IF b = <<>> THEN FALSE
  ELSE IF a = <<>> THEN TRUE
  ELSE IF a[1] # b[1] THEN CharRank(a[1]) < CharRank(b[1])
  ELSE StringLess(Tail(a), Tail(b))

PodApi ==
  [Name |-> <<"a", "p", "i">>, Namespace |-> <<"d">>,
   Status |-> <<"P", "e", "n", "d", "i", "n", "g">>, Node |-> <<"n", "1">>]

PodDb ==
  [Name |-> <<"d", "b">>, Namespace |-> <<"d">>,
   Status |-> <<"E", "r", "r", "o", "r">>, Node |-> <<"n", "2">>]

PodWeb ==
  [Name |-> <<"w", "e", "b">>, Namespace |-> <<"d">>,
   Status |-> <<"P", "e", "n", "d", "i", "n", "g">>, Node |-> <<"n", "1">>]

\* what GetPods may answer, in the order of the cluster's answer
PodAnswers ==
  { <<>>, <<PodApi>>, <<PodWeb, PodApi>>, <<PodDb, PodWeb, PodApi>>, <<PodWeb, PodDb>> }

\* sort.Slice by Name (the names of an answer are distinct)
SortByName(pods) ==
  IF pods = <<>> THEN <<>>
  ELSE CHOOSE s \in [1..Len(pods) -> {pods[i] : i \in 1..Len(pods)}] :
         /\ \A i \in 1..Len(pods) : \E j \in 1..Len(s) : s[j] = pods[i]
         /\ \A i \in 1..(Len(s) - 1) : StringLess(s[i].Name, s[i + 1].Name)

NewPodsTable ==
  [pods |-> <<>>, filteredPods |-> <<>>, isLoading |-> TRUE, error |-> NoError,
   cursor |-> 0, searchMode |-> FALSE, searchQuery |-> <<>>]

PodSearchText(pod) ==
  ToLower(pod.Name \o <<" ">> \o pod.Namespace \o <<" ">> \o pod.Status \o <<" ">> \o pod.Node)

filterPods(pt) ==
  IF pt.searchQuery = <<>> THEN [pt EXCEPT !.filteredPods = pt.pods]
  ELSE [pt EXCEPT !.filteredPods =
          SelectSeq(pt.pods,
                    LAMBDA pod : Contains(PodSearchText(pod), ToLower(pt.searchQuery)))]

\* Update once GetPods has returned pods or err
PodsTableUpdate(pt, pods, err) ==
  IF err # NoError THEN [pt EXCEPT !.error = err, !.isLoading = FALSE]
  ELSE [filterPods([pt EXCEPT !.error = NoError, !.pods = SortByName(pods)])
          EXCEPT !.isLoading = FALSE]

PodsTableToggleSearchMode(pt) ==
  IF pt.searchMode
  THEN [filterPods([pt EXCEPT !.searchMode = FALSE, !.searchQuery = <<>>])
          EXCEPT !.cursor = 0]
  ELSE [pt EXCEPT !.searchMode = TRUE]

PodsTableUpdateSearch(pt, query) ==
  [filterPods([pt EXCEPT !.searchQuery = query]) EXCEPT !.cursor = 0]

PodsTableMoveUp(pt) == IF pt.cursor > 0 THEN [pt EXCEPT !.cursor = @ - 1] ELSE pt

PodsTableMoveDown(pt) ==
  IF pt.cursor < Len(pt.filteredPods) - 1 THEN [pt EXCEPT !.cursor = @ + 1] ELSE pt

\* nil is modelled by the empty sequence, a pod by the sequence that holds it
GetSelectedPod(pt) ==
  IF pt.cursor < Len(pt.filteredPods) THEN << pt.filteredPods[pt.cursor + 1] >> ELSE <<>>

VARIABLES
  isLoading,           \* Model.isLoading
  isConnected,         \* Model.isConnected
  initError,           \* Model.initError ("" for nil)
  focusedPane,         \* Model.focusedPane
  kubeConfig,          \* Model.kubeConfig (shared with rightPane.KubeConfig)
  contextSelector,     \* Model.contextSelector
  namespaceSelector,   \* Model.namespaceSelector
  timeframeInputPane,  \* Model.timeframeInputPane
  leftPane,            \* Model.leftPane
  rightPane,           \* Model.rightPane without its tables
  nodesTable,          \* rightPane.nodesTable
  eventsTable,         \* rightPane.eventsTable
  notifications,       \* Model.notifications.Notifications
  now,                 \* wall clock, seconds
  connectCmd,          \* connectToClusterCmd in flight
  contextCmds,         \* testContextConnectionCmd tasks in flight
  nodesTasks,          \* goroutines running nodesTable.Update()
  eventsTasks,         \* goroutines running eventsTable.Update()
  quit,                \* tea.Quit was returned
  panicked,            \* the process died of a nil dereference
  lastEvent,           \* the message or goroutine step that was processed last
  confirmationDialog,  \* the ui.ConfirmationDialog of the pod actions
  deleteCalls,         \* delete calls issued by the last confirmation
  yamlViewer,          \* the ui.YAMLViewer
  yamlTasks,           \* the fetchYAML goroutines, in the order they were started
  logsViewer,          \* the ui.LogsViewer
  logsTasks,           \* the fetchLogs goroutines, in the order they were started
  podsTable            \* the ui.PodsTable

uiVars ==
  << isLoading, isConnected, initError, focusedPane, kubeConfig, contextSelector,
     namespaceSelector, timeframeInputPane, leftPane, rightPane, nodesTable,
     eventsTable, notifications >>

taskVars == << connectCmd, contextCmds, nodesTasks, eventsTasks >>

dialogVars == << confirmationDialog, deleteCalls >>

viewerVars == << yamlViewer, yamlTasks, logsViewer, logsTasks, podsTable >>

vars == << uiVars, taskVars, now, quit, panicked, lastEvent, dialogVars, viewerVars >>

NilKubeConfig == [nil |-> TRUE, CurrentContext |-> <<>>, Contexts |-> <<>>]

NewRightPane ==
  [SelectedItem |-> <<>>, SearchMode |-> FALSE, KubeConfig |-> FALSE,
   metrics |-> <<>>, lastUpdate |-> ZeroTime]

Event(kind, detail) == [kind |-> kind, detail |-> detail]

\* InitialModel(): the state after construction, with Init()'s commands started
Init ==
  /\ isLoading = TRUE
  /\ isConnected = FALSE
  /\ initError = ""
  /\ focusedPane = FocusLeftPane
  /\ kubeConfig = NilKubeConfig
  /\ contextSelector = NilContextSelector
  /\ namespaceSelector = NilNamespaceSelector
  /\ timeframeInputPane = NewTimeframeInput
  /\ leftPane = NewLeftPane
  /\ rightPane = NewRightPane
  /\ nodesTable = NilNodesTable
  /\ eventsTable = NilEventsTable
  /\ notifications = <<>>
  /\ now = 0
  /\ connectCmd = TRUE
  /\ contextCmds = <<>>
  /\ nodesTasks = EmptyBag
  /\ eventsTasks = EmptyBag
  /\ quit = FALSE
  /\ panicked = FALSE
  /\ lastEvent = Event("init", "")
  /\ confirmationDialog = NewConfirmationDialog
  /\ deleteCalls = 0
  /\ yamlViewer = NewYAMLViewer
  /\ yamlTasks = <<>>
  /\ logsViewer = NewLogsViewer
  /\ logsTasks = <<>>
  /\ podsTable = NewPodsTable

\* the process is alive
Running == ~quit /\ ~panicked

\* the bounds of the model: what the user types, how long the run lasts, how
\* many goroutines and notifications exist at once
Bounded ==
  /\ Len(contextSelector.SearchQuery) <= MaxQuery
  /\ Len(namespaceSelector.SearchQuery) <= MaxQuery
  /\ Len(leftPane.SearchQuery) <= MaxQuery
  /\ Len(timeframeInputPane.input) <= MaxQuery
  /\ now <= MaxTime
  /\ BagCardinality(nodesTasks) <= MaxFetch
  /\ BagCardinality(eventsTasks) <= MaxFetch
  /\ Len(notifications) <= MaxNotifs

\* ---------------------------------------------------------------------------
\* Goroutines running a table's Update(): pc "new" before the goroutine has
\* read rightPane's table pointer, "call" while it waits for the cluster.
\* orphan: the table it writes to was replaced by SetKubeConfig meanwhile.
\* ---------------------------------------------------------------------------
NewTask == [pc |-> "new", orphan |-> FALSE, ctx |-> <<>>, tf |-> 0]

BagAdd(B, e) == B (+) SetToBag({e})

BagRemove(B, e) == B (-) SetToBag({e})

\* `go func() { table.Update() }()`
Go(tasks) == BagAdd(tasks, NewTask)

\* the goroutines in flight keep writing to the table on display
OrphanTasksNone(B) == B

\* the goroutines that already hold the old table keep writing to it
OrphanTasks(B) ==
  LET S == BagToSet(B)
      img(e) == IF e.pc = "call" THEN [e EXCEPT !.orphan = TRUE] ELSE e
      T == {img(e) : e \in S}
      twin(t) == [t EXCEPT !.orphan = FALSE]
  IN [t \in T |->
        (IF t \in S THEN B[t] ELSE 0)
        + (IF t.pc = "call" /\ t.orphan /\ twin(t) \in S THEN B[twin(t)] ELSE 0)]

\* ---------------------------------------------------------------------------
\* k8s.KubeConfig
\* ---------------------------------------------------------------------------
GetCurrentNamespace(kc) ==
  IF ConfigNamespace(kc.CurrentContext) = <<>> THEN NsDefault
  ELSE ConfigNamespace(kc.CurrentContext)

SwitchContext(kc, contextName) == [kc EXCEPT !.CurrentContext = contextName]

\* ---------------------------------------------------------------------------
\* Model.Update: connectionResultMsg
\* ---------------------------------------------------------------------------
InitFailedMessage == "Failed to connect to current context"

ConnectionResultMsg(outcome, cur) ==
  /\ Running
  /\ connectCmd
  /\ connectCmd' = FALSE
  /\ lastEvent' = Event("connectionResult", outcome)
  /\ isLoading' = FALSE
  /\ CASE outcome = "noKubeconfig" ->
            \* NewKubeConfig fails in the command and again in the handler
            /\ kubeConfig' = NilKubeConfig
            /\ initError' = "Failed to load kubeconfig"
            /\ UNCHANGED << isConnected, focusedPane, contextSelector, namespaceSelector,
                            leftPane, rightPane, nodesTable, eventsTable,
                            nodesTasks, eventsTasks >>
       [] outcome = "noContexts" ->
            \* the kubeconfig loads but names no context: GetNamespaces fails
            /\ kubeConfig' = [nil |-> FALSE, CurrentContext |-> <<>>, Contexts |-> <<>>]
            /\ initError' = "Failed to connect to cluster"
            /\ UNCHANGED << isConnected, focusedPane, contextSelector, namespaceSelector,
                            leftPane, rightPane, nodesTable, eventsTable,
                            nodesTasks, eventsTasks >>
       [] outcome = "connectFailed" ->
            /\ kubeConfig' = [nil |-> FALSE, CurrentContext |-> cur, Contexts |-> Contexts]
            /\ contextSelector' =
                 SetConnectionError(NewContextSelector(Contexts, cur), InitFailedMessage)
            /\ isConnected' = FALSE
            /\ UNCHANGED << initError, focusedPane, namespaceSelector, leftPane, rightPane,
                            nodesTable, eventsTable, nodesTasks, eventsTasks >>
       [] outcome = "ok" ->
            LET kc == [nil |-> FALSE, CurrentContext |-> cur, Contexts |-> Contexts]
            IN /\ kubeConfig' = kc
               /\ namespaceSelector' =
                    NewNamespaceSelector(ClusterNamespaces(cur), GetCurrentNamespace(kc))
               /\ contextSelector' = ContextSelectorClose(NewContextSelector(Contexts, cur))
               \* rightPane.SetKubeConfig
               /\ nodesTable' = NewNodesTable(cur)
               /\ eventsTable' = NewEventsTable(cur)
               /\ nodesTasks' = OrphanTasks(nodesTasks)
               /\ eventsTasks' = OrphanTasks(eventsTasks)
               /\ isConnected' = TRUE
               /\ leftPane' = [leftPane EXCEPT !.SelectedItem = NameOverview]
               /\ rightPane' = [rightPane EXCEPT !.KubeConfig = TRUE,
                                                 !.SelectedItem = NameOverview]
               /\ focusedPane' = FocusLeftPane
               /\ UNCHANGED initError
  /\ UNCHANGED << timeframeInputPane, notifications, now, contextCmds, quit, panicked >>
  /\ UNCHANGED << dialogVars, viewerVars >>

\* ---------------------------------------------------------------------------
\* Model.Update: contextConnectionResultMsg, the result of the i-th
\* testContextConnectionCmd in flight
\* ---------------------------------------------------------------------------
\* the success branch, reached with a non-nil context selector
ContextConnected(msg) ==
  /\ kubeConfig' = SwitchContext(kubeConfig, msg.context)
  /\ IF namespaceSelector.nil
     THEN \* m.namespaceSelector.UpdateNamespaces dereferences a nil pointer
          /\ panicked' = TRUE
          /\ UNCHANGED << isConnected, focusedPane, contextSelector, namespaceSelector,
                          leftPane, rightPane, nodesTable, eventsTable, notifications,
                          nodesTasks, eventsTasks >>
     ELSE /\ namespaceSelector' =
               UpdateNamespaces(namespaceSelector, msg.namespaces, msg.currentNamespace)
          \* rightPane.SetKubeConfig
          /\ nodesTable' = NewNodesTable(msg.context)
          /\ eventsTable' = NewEventsTable(msg.context)
          /\ nodesTasks' = OrphanTasks(nodesTasks)
          /\ eventsTasks' = OrphanTasks(eventsTasks)
          /\ contextSelector' = ContextSelectorClose(contextSelector)
          /\ isConnected' = TRUE
          /\ leftPane' = [leftPane EXCEPT !.SelectedItem = NameOverview]
          /\ rightPane' = [rightPane EXCEPT !.KubeConfig = TRUE,
                                            !.SelectedItem = NameOverview]
          /\ focusedPane' = FocusLeftPane
          /\ notifications' = AddSuccess(notifications, "Context switched", now)
          /\ UNCHANGED panicked

\* the failure branch
ContextConnectionFailed(msg) ==
  /\ contextSelector' = SetConnectionError(contextSelector, msg.err)
  /\ UNCHANGED << kubeConfig, isConnected, focusedPane, namespaceSelector, leftPane,
                  rightPane, nodesTable, eventsTable, notifications, nodesTasks,
                  eventsTasks, panicked >>

\* the message testContextConnectionCmd builds for a candidate context
ContextResult(context, err) ==
  [context |-> context, err |-> err,
   namespaces |-> IF err = NoError THEN ClusterNamespaces(context) ELSE <<>>,
   currentNamespace |-> IF err = NoError THEN GetCurrentNamespace(kubeConfig) ELSE <<>>]

ContextConnectionResultMsg(i, err) ==
  /\ Running
  /\ i \in 1..Len(contextCmds)
  /\ contextCmds' = SubSeq(contextCmds, 1, i - 1) \o SubSeq(contextCmds, i + 1, Len(contextCmds))
  /\ lastEvent' = Event(IF err = NoError THEN "contextConnected" ELSE "contextFailed",
                        [context |-> contextCmds[i].context, err |-> err])
  /\ LET msg == ContextResult(contextCmds[i].context, err)
     IN IF contextSelector.nil
        THEN UNCHANGED << kubeConfig, isConnected, focusedPane, contextSelector,
                          namespaceSelector, leftPane, rightPane, nodesTable, eventsTable,
                          notifications, nodesTasks, eventsTasks, panicked >>
        ELSE IF msg.err # NoError
        THEN ContextConnectionFailed(msg)
        ELSE ContextConnected(msg)
  /\ UNCHANGED << isLoading, initError, timeframeInputPane, now, connectCmd, quit >>
  /\ UNCHANGED << dialogVars, viewerVars >>

\* ---------------------------------------------------------------------------
\* Model.Update: tickMsg (one second after the previous tick)
\* ---------------------------------------------------------------------------
NodesSelected(item) == Contains(ToLower(item), LowerNodes)

EventsSelected(item) == Contains(ToLower(item), LowerEvents)

OverviewSelected(item) == Contains(ToLower(item), LowerOverview)

\* RightPane.UpdateNodes
UpdateNodes(tasks) == IF ~nodesTable.nil THEN Go(tasks) ELSE tasks

\* RightPane.UpdateEvents
UpdateEvents(tasks) == IF ~eventsTable.nil THEN Go(tasks) ELSE tasks

TickMsg ==
  /\ Running
  /\ now' = now + 1
  /\ lastEvent' = Event("tick", "")
  /\ notifications' = CleanExpired(notifications, now')
  /\ contextSelector' =
       IF ~contextSelector.nil /\ contextSelector.isOpen
       THEN UpdateSpinner(contextSelector) ELSE contextSelector
  /\ nodesTasks' =
       IF isConnected /\ NodesSelected(leftPane.SelectedItem)
       THEN UpdateNodes(nodesTasks) ELSE nodesTasks
  /\ eventsTasks' =
       IF isConnected /\ EventsSelected(leftPane.SelectedItem)
       THEN UpdateEvents(eventsTasks) ELSE eventsTasks
  /\ UNCHANGED << isLoading, isConnected, initError, focusedPane, kubeConfig,
                  namespaceSelector, timeframeInputPane, leftPane, rightPane, nodesTable,
                  eventsTable, connectCmd, contextCmds, quit, panicked >>
  /\ UNCHANGED << dialogVars, viewerVars >>

\* ---------------------------------------------------------------------------
\* Model.View: the frame bubbletea renders from the current model
\* ---------------------------------------------------------------------------
\* RightPane.renderOverview: the metrics are fetched inside the render call
RenderOverview(ok) ==
  /\ rightPane' =
       IF /\ rightPane.KubeConfig
          /\ \/ rightPane.metrics = <<>>
             \/ SinceExceeds(rightPane.lastUpdate, MetricsInterval, now)
          /\ ok
       THEN [rightPane EXCEPT !.metrics = << [ctx |-> kubeConfig.CurrentContext] >>,
                              !.lastUpdate = now]
       ELSE rightPane
  /\ UNCHANGED << nodesTable, eventsTable, nodesTasks, eventsTasks >>

\* RightPane.renderNodes
RenderNodes ==
  LET nt == IF nodesTable.nil /\ rightPane.KubeConfig
            THEN NewNodesTable(kubeConfig.CurrentContext) ELSE nodesTable
  IN /\ nodesTable' = nt
     /\ nodesTasks' = IF ~nt.nil /\ NodesShouldUpdate(nt, now)
                      THEN Go(nodesTasks) ELSE nodesTasks
     /\ UNCHANGED << rightPane, eventsTable, eventsTasks >>

\* RightPane.renderEvents
RenderEvents ==
  LET created == eventsTable.nil /\ rightPane.KubeConfig
      et == IF created THEN NewEventsTable(kubeConfig.CurrentContext) ELSE eventsTable
      first == IF created THEN Go(eventsTasks) ELSE eventsTasks
  IN /\ eventsTable' = et
     /\ eventsTasks' = IF ~et.nil /\ EventsShouldUpdate(et, now) THEN Go(first) ELSE first
     /\ UNCHANGED << rightPane, nodesTable, nodesTasks >>

\* RightPane.Render
RightPaneRender(ok) ==
  IF rightPane.SelectedItem = <<>>
  THEN UNCHANGED << rightPane, nodesTable, eventsTable, nodesTasks, eventsTasks >>
  ELSE IF OverviewSelected(rightPane.SelectedItem) THEN RenderOverview(ok)
  ELSE IF NodesSelected(rightPane.SelectedItem) THEN RenderNodes
  ELSE IF EventsSelected(rightPane.SelectedItem) THEN RenderEvents
  ELSE UNCHANGED << rightPane, nodesTable, eventsTable, nodesTasks, eventsTasks >>

\* ok: whether the cluster answers a metrics call made during this render
View(ok) ==
  /\ Running
  /\ lastEvent' = Event("view", "")
  /\ IF isLoading
     THEN UNCHANGED << contextSelector, notifications, rightPane, nodesTable, eventsTable,
                       nodesTasks, eventsTasks >>
     ELSE IF initError # ""
     THEN /\ notifications' = CleanExpired(notifications, now)
          /\ UNCHANGED << contextSelector, rightPane, nodesTable, eventsTable,
                          nodesTasks, eventsTasks >>
     ELSE IF ~contextSelector.nil /\ contextSelector.isOpen
     THEN UNCHANGED << contextSelector, notifications, rightPane, nodesTable, eventsTable,
                       nodesTasks, eventsTasks >>
     ELSE IF ~isConnected
     THEN /\ contextSelector' =
               IF ~contextSelector.nil THEN ContextSelectorOpen(contextSelector)
               ELSE contextSelector
          /\ UNCHANGED << notifications, rightPane, nodesTable, eventsTable,
                          nodesTasks, eventsTasks >>
     ELSE /\ RightPaneRender(ok)
          /\ notifications' =
               IF \/ ~namespaceSelector.nil /\ namespaceSelector.isOpen
                  \/ timeframeInputPane.isOpen
               THEN notifications
               ELSE CleanExpired(notifications, now)
          /\ UNCHANGED contextSelector
  /\ UNCHANGED << isLoading, isConnected, initError, focusedPane, kubeConfig,
                  namespaceSelector, timeframeInputPane, leftPane, now, connectCmd,
                  contextCmds, quit, panicked >>
  /\ UNCHANGED << dialogVars, viewerVars >>

\* ---------------------------------------------------------------------------
\* The goroutines of the tables
\* ---------------------------------------------------------------------------
\* NodesTable.Update up to the cluster call
NodesTaskBegin ==
  /\ Running
  /\ NewTask \in BagToSet(nodesTasks)
  /\ lastEvent' = Event("task", "nodes")
  /\ nodesTable' = [nodesTable EXCEPT !.isLoading = TRUE, !.error = NoError]
  /\ nodesTasks' = BagAdd(BagRemove(nodesTasks, NewTask),
                          [NewTask EXCEPT !.pc = "call", !.ctx = nodesTable.contextName])
  /\ UNCHANGED << isLoading, isConnected, initError, focusedPane, kubeConfig,
                  contextSelector, namespaceSelector, timeframeInputPane, leftPane,
                  rightPane, eventsTable, notifications, now, connectCmd, contextCmds,
                  eventsTasks, quit, panicked >>
  /\ UNCHANGED << dialogVars, viewerVars >>

\* NodesTable.Update after GetNodes returned (err = NoError on success)
NodesTaskEnd(task, err) ==
  /\ Running
  /\ task \in BagToSet(nodesTasks)
  /\ task.pc = "call"
  /\ lastEvent' = Event("task", "nodes")
  /\ nodesTasks' = BagRemove(nodesTasks, task)
  /\ nodesTable' =
       IF task.orphan THEN nodesTable
       ELSE IF err # NoError
       THEN [nodesTable EXCEPT !.error = err, !.isLoading = FALSE]
       ELSE [nodesTable EXCEPT !.nodes = NodesOf(task.ctx), !.lastUpdate = now,
                               !.isLoading = FALSE]
  /\ UNCHANGED << isLoading, isConnected, initError, focusedPane, kubeConfig,
                  contextSelector, namespaceSelector, timeframeInputPane, leftPane,
                  rightPane, eventsTable, notifications, now, connectCmd, contextCmds,
                  eventsTasks, quit, panicked >>
  /\ UNCHANGED << dialogVars, viewerVars >>

\* EventsTable.Update up to the cluster call
EventsTaskBegin ==
  /\ Running
  /\ NewTask \in BagToSet(eventsTasks)
  /\ lastEvent' = Event("task", "events")
  /\ eventsTable' = [eventsTable EXCEPT
                       !.isLoading = IF Len(eventsTable.events) = 0 THEN TRUE ELSE @,
                       !.error = NoError]
  /\ eventsTasks' = BagAdd(BagRemove(eventsTasks, NewTask),
                           [NewTask EXCEPT !.pc = "call", !.ctx = eventsTable.contextName,
                                           !.tf = eventsTable.timeframeMin])
  /\ UNCHANGED << isLoading, isConnected, initError, focusedPane, kubeConfig,
                  contextSelector, namespaceSelector, timeframeInputPane, leftPane,
                  rightPane, nodesTable, notifications, now, connectCmd, contextCmds,
                  nodesTasks, quit, panicked >>
  /\ UNCHANGED << dialogVars, viewerVars >>

\* EventsTable.Update after GetEvents returned
EventsTaskEnd(task, err, events) ==
  /\ Running
  /\ task \in BagToSet(eventsTasks)
  /\ task.pc = "call"
  /\ events \in EventsOf(task.ctx, task.tf)
  /\ lastEvent' = Event("task", "events")
  /\ eventsTasks' = BagRemove(eventsTasks, task)
  /\ eventsTable' =
       IF task.orphan THEN eventsTable
       ELSE IF err # NoError
       THEN [eventsTable EXCEPT !.error = err, !.isLoading = FALSE]
       ELSE [eventsTable EXCEPT !.events = events, !.lastUpdate = now,
                                !.isLoading = FALSE]
  /\ UNCHANGED << isLoading, isConnected, initError, focusedPane, kubeConfig,
                  contextSelector, namespaceSelector, timeframeInputPane, leftPane,
                  rightPane, nodesTable, notifications, now, connectCmd, contextCmds,
                  nodesTasks, quit, panicked >>
  /\ UNCHANGED << dialogVars, viewerVars >>

\* ---------------------------------------------------------------------------
\* The confirmation dialog of the pod actions, driven by its caller
\* ---------------------------------------------------------------------------
PodNames == {"web-0", "web-1"}

PodActions == {ActionDelete, ActionRestart}

PodNamespaces == {NsDefault, NsKubeSystem}

\* what the dialog was before the call
DialogBefore == [isOpen |-> confirmationDialog.isOpen, cursor |-> confirmationDialog.cursor]

DialogUnchanged == UNCHANGED << uiVars, taskVars, now, quit, panicked, viewerVars >>

\* the user asks for an action on a pod: cd.Open(action, podName, namespace)
DialogOpen(action, podName, namespace) ==
  /\ confirmationDialog' =
       ConfirmationDialogOpen(confirmationDialog, action, podName, namespace)
  /\ lastEvent' = Event("dialogOpen", DialogBefore)
  /\ UNCHANGED deleteCalls
  /\ DialogUnchanged

\* left / right arrow
DialogMoveLeft ==
  /\ confirmationDialog' = MoveLeft(confirmationDialog)
  /\ lastEvent' = Event("dialogMove", DialogBefore)
  /\ UNCHANGED deleteCalls
  /\ DialogUnchanged

DialogMoveRight ==
  /\ confirmationDialog' = MoveRight(confirmationDialog)
  /\ lastEvent' = Event("dialogMove", DialogBefore)
  /\ UNCHANGED deleteCalls
  /\ DialogUnchanged

\* Escape
DialogClose ==
  /\ confirmationDialog' = ConfirmationDialogClose(confirmationDialog)
  /\ lastEvent' = Event("dialogClose", DialogBefore)
  /\ UNCHANGED deleteCalls
  /\ DialogUnchanged

\* Enter: the caller issues the delete call when Confirm() returns true
DialogConfirm ==
  /\ confirmationDialog' = Confirm(confirmationDialog)[1]
  /\ deleteCalls' = IF Confirm(confirmationDialog)[2] THEN 1 ELSE 0
  /\ lastEvent' = Event("dialogConfirm", DialogBefore)
  /\ DialogUnchanged

\* ---------------------------------------------------------------------------
\* Model.Update: tea.KeyMsg.  One operator per dispatch target; k is
\* msg.String() ("esc" is tea.KeyEscape, "backspace" is tea.KeyBackspace).
\* ---------------------------------------------------------------------------
IsChar(k) == k \notin SpecialKeys

ContextSelectorIsOpen == ~contextSelector.nil /\ contextSelector.isOpen

TimeframeInputIsOpen == timeframeInputPane.isOpen

NamespaceSelectorIsOpen == ~namespaceSelector.nil /\ namespaceSelector.isOpen

InSearchMode == leftPane.SearchMode /\ focusedPane = FocusLeftPane

\* KeyContextSelector whose escape closes the selector without the isConnected check
KeyContextSelectorEscCloses(k) ==
  LET cs == contextSelector
      selected == ContextSelectorSelect(cs)
  IN /\ contextSelector' =
          CASE k = "esc" -> ContextSelectorClose(cs)
            [] k = "enter" -> SetConnecting(ClearError(selected), TRUE)
            [] k = "up" -> ContextSelectorMoveUp(cs)
            [] k = "down" -> ContextSelectorMoveDown(cs)
            [] k = "backspace" ->
                 IF Len(cs.SearchQuery) > 0
                 THEN ContextSelectorUpdateSearch(cs, DropLast(cs.SearchQuery))
                 ELSE cs
            [] OTHER ->
                 IF IsChar(k)
                 THEN ContextSelectorUpdateSearch(cs, Append(cs.SearchQuery, k))
                 ELSE cs
     /\ contextCmds' =
          IF k = "enter"
          THEN Append(contextCmds, [context |-> selected.selectedContext])
          ELSE contextCmds
     /\ UNCHANGED << focusedPane, namespaceSelector, timeframeInputPane, leftPane,
                     rightPane, eventsTable, notifications >>

\* the context selector branch, past the isConnecting check
KeyContextSelector(k) ==
  LET cs == contextSelector
      selected == ContextSelectorSelect(cs)
  IN /\ contextSelector' =
          CASE k = "esc" -> IF ~isConnected THEN cs ELSE ContextSelectorClose(cs)
            [] k = "enter" -> SetConnecting(ClearError(selected), TRUE)
            [] k = "up" -> ContextSelectorMoveUp(cs)
            [] k = "down" -> ContextSelectorMoveDown(cs)
            [] k = "backspace" ->
                 IF Len(cs.SearchQuery) > 0
                 THEN ContextSelectorUpdateSearch(cs, DropLast(cs.SearchQuery))
                 ELSE cs
            [] OTHER ->
                 IF IsChar(k)
                 THEN ContextSelectorUpdateSearch(cs, Append(cs.SearchQuery, k))
                 ELSE cs
     /\ contextCmds' =
          IF k = "enter"
          THEN Append(contextCmds, [context |-> selected.selectedContext])
          ELSE contextCmds
     /\ UNCHANGED << focusedPane, namespaceSelector, timeframeInputPane, leftPane,
                     rightPane, eventsTable, notifications >>

\* the timeframe input branch
KeyTimeframeInput(k) ==
  LET ti == timeframeInputPane
      input == ti.input
      handled == HandleTimeframeInput(eventsTable, input)
      applies == k = "enter" /\ input # <<>> /\ ~eventsTable.nil
  IN /\ timeframeInputPane' =
          CASE k = "esc" -> TimeframeInputClose(ti)
            [] k = "enter" -> TimeframeInputClose(ti)
            [] k = "backspace" -> Backspace(ti)
            [] OTHER -> IF IsChar(k) THEN AddChar(ti, k) ELSE ti
     /\ eventsTable' = IF applies THEN handled[1] ELSE eventsTable
     /\ notifications' =
          IF applies
          THEN IF handled[2] THEN AddError(notifications, "Invalid Input", now)
               ELSE AddSuccess(notifications, "Timeframe Updated", now)
          ELSE notifications
     /\ UNCHANGED << focusedPane, contextSelector, namespaceSelector, leftPane, rightPane,
                     contextCmds >>

\* the namespace selector branch
KeyNamespaceSelector(k) ==
  LET ns == namespaceSelector
      previousNamespace == GetSelectedNamespace(ns)
      selected == NamespaceSelectorSelect(ns)
      newNamespace == GetSelectedNamespace(selected)
  IN /\ namespaceSelector' =
          CASE k = "esc" -> NamespaceSelectorClose(ns)
            [] k = "enter" -> selected
            [] k = "up" -> NamespaceSelectorMoveUp(ns)
            [] k = "down" -> NamespaceSelectorMoveDown(ns)
            [] k = "backspace" ->
                 IF Len(ns.SearchQuery) > 0
                 THEN NamespaceSelectorUpdateSearch(ns, DropLast(ns.SearchQuery))
                 ELSE ns
            [] OTHER ->
                 IF IsChar(k)
                 THEN NamespaceSelectorUpdateSearch(ns, Append(ns.SearchQuery, k))
                 ELSE ns
     /\ notifications' =
          IF k = "enter" /\ newNamespace # previousNamespace
          THEN AddInfo(notifications, "Namespace changed", now)
          ELSE notifications
     /\ UNCHANGED << focusedPane, contextSelector, timeframeInputPane, leftPane, rightPane,
                     eventsTable, contextCmds >>

\* the left-pane search branch
KeySearchMode(k) ==
  LET lp == leftPane
      toggled == ToggleExpand(lp)
      resourceSelected == toggled[2]
      lp2 == CASE k = "esc" -> ToggleSearch(lp)
               [] k = "enter" ->
                    IF resourceSelected THEN ToggleSearch(toggled[1]) ELSE toggled[1]
               [] k = "up" -> LeftPaneMoveUp(lp)
               [] k = "down" -> LeftPaneMoveDown(lp)
               [] k = "backspace" ->
                    IF Len(lp.SearchQuery) > 0
                    THEN LeftPaneUpdateSearch(lp, DropLast(lp.SearchQuery))
                    ELSE lp
               [] OTHER ->
                    IF IsChar(k) /\ k # "1" /\ k # "2"
                    THEN LeftPaneUpdateSearch(lp, Append(lp.SearchQuery, k))
                    ELSE lp
  IN /\ leftPane' = lp2
     /\ focusedPane' =
          CASE k = "1" -> FocusLeftPane
            [] k = "2" -> FocusRightPane
            [] k = "enter" /\ resourceSelected -> FocusRightPane
            [] OTHER -> focusedPane
     /\ rightPane' =
          CASE k = "esc" -> [rightPane EXCEPT !.SearchMode = lp2.SearchMode]
            [] k = "enter" ->
                 [rightPane EXCEPT !.SelectedItem = toggled[1].SelectedItem,
                                   !.SearchMode = IF resourceSelected THEN lp2.SearchMode
                                                  ELSE @]
            [] OTHER -> rightPane
     /\ UNCHANGED << contextSelector, namespaceSelector, timeframeInputPane, eventsTable,
                     notifications, contextCmds >>

\* normal mode: global bindings and the focused pane
KeyNormalMode(k) ==
  LET lp == leftPane
      left == focusedPane = FocusLeftPane
      toggled == ToggleExpand(lp)
      lp2 == CASE k = "/" /\ left -> ToggleSearch(lp)
               [] k = "up" /\ left -> LeftPaneMoveUp(lp)
               [] k = "down" /\ left -> LeftPaneMoveDown(lp)
               [] k = "enter" /\ left -> toggled[1]
               [] k = "esc" /\ left -> Collapse(lp)
               [] OTHER -> lp
  IN /\ leftPane' = lp2
     /\ focusedPane' =
          CASE k = "1" -> FocusLeftPane
            [] k = "2" -> FocusRightPane
            [] k = "enter" /\ left /\ toggled[2] -> FocusRightPane
            [] OTHER -> focusedPane
     /\ rightPane' =
          CASE k = "/" /\ left -> [rightPane EXCEPT !.SearchMode = lp2.SearchMode]
            [] k = "enter" /\ left -> [rightPane EXCEPT !.SelectedItem = lp2.SelectedItem]
            [] OTHER -> rightPane
     /\ namespaceSelector' =
          IF k = "ctrl+n" /\ ~namespaceSelector.nil
          THEN NamespaceSelectorOpen(namespaceSelector) ELSE namespaceSelector
     /\ contextSelector' =
          IF k = "ctrl+k" /\ ~contextSelector.nil
          THEN ContextSelectorOpen(contextSelector) ELSE contextSelector
     /\ timeframeInputPane' =
          IF k = "t" /\ focusedPane = FocusRightPane /\ EventsSelected(lp.SelectedItem)
          THEN TimeframeInputOpen(timeframeInputPane) ELSE timeframeInputPane
     /\ UNCHANGED << eventsTable, notifications, contextCmds >>

\* KeyBranch with the timeframe input check left out: its keys fall through
KeyBranchNoTimeframe(k) ==
  IF k = QuitKey THEN "quit"
  ELSE IF isLoading \/ initError # "" THEN "loading"
  ELSE IF ContextSelectorIsOpen
  THEN IF contextSelector.isConnecting THEN "connecting" ELSE "contextSelector"
  ELSE IF NamespaceSelectorIsOpen THEN "namespaceSelector"
  ELSE IF InSearchMode THEN "search"
  ELSE "normal"

\* KeyBranch with the loading check ahead of the quit check
KeyBranchQuitAfterLoading(k) ==
  IF isLoading \/ initError # "" THEN "loading"
  ELSE IF k = QuitKey THEN "quit"
  ELSE IF ContextSelectorIsOpen
  THEN IF contextSelector.isConnecting THEN "connecting" ELSE "contextSelector"
  ELSE IF TimeframeInputIsOpen THEN "timeframeInput"
  ELSE IF NamespaceSelectorIsOpen THEN "namespaceSelector"
  ELSE IF InSearchMode THEN "search"
  ELSE "normal"

\* KeyBranch without the isConnecting check of the context selector branch
KeyBranchNoConnectingLock(k) ==
  IF k = QuitKey THEN "quit"
  ELSE IF isLoading \/ initError # "" THEN "loading"
  ELSE IF ContextSelectorIsOpen THEN "contextSelector"
  ELSE IF TimeframeInputIsOpen THEN "timeframeInput"
  ELSE IF NamespaceSelectorIsOpen THEN "namespaceSelector"
  ELSE IF InSearchMode THEN "search"
  ELSE "normal"

\* a router that lets the keys through to the menu while the namespace picker
\* is open
KeyBranchNoNamespace(k) ==
  IF k = QuitKey THEN "quit"
  ELSE IF isLoading \/ initError # "" THEN "loading"
  ELSE IF ContextSelectorIsOpen
  THEN IF contextSelector.isConnecting THEN "connecting" ELSE "contextSelector"
  ELSE IF TimeframeInputIsOpen THEN "timeframeInput"
  ELSE IF InSearchMode THEN "search"
  ELSE "normal"

\* KeyBranch with a gate that looks at isLoading only: keys pass after a
\* configuration error
KeyBranchNoErrorGate(k) ==
  IF k = QuitKey THEN "quit"
  ELSE IF isLoading THEN "loading"
  ELSE IF ContextSelectorIsOpen
  THEN IF contextSelector.isConnecting THEN "connecting" ELSE "contextSelector"
  ELSE IF TimeframeInputIsOpen THEN "timeframeInput"
  ELSE IF NamespaceSelectorIsOpen THEN "namespaceSelector"
  ELSE IF InSearchMode THEN "search"
  ELSE "normal"

\* the return point of the tea.KeyMsg case: which branch consumes key k
KeyBranch(k) ==
  IF k = QuitKey THEN "quit"
  ELSE IF isLoading \/ initError # "" THEN "loading"
  ELSE IF ContextSelectorIsOpen
  THEN IF contextSelector.isConnecting THEN "connecting" ELSE "contextSelector"
  ELSE IF TimeframeInputIsOpen THEN "timeframeInput"
  ELSE IF NamespaceSelectorIsOpen THEN "namespaceSelector"
  ELSE IF InSearchMode THEN "search"
  ELSE "normal"

dispatchVars ==
  << focusedPane, contextSelector, namespaceSelector, timeframeInputPane, leftPane,
     rightPane, eventsTable, notifications, contextCmds >>

\* the branch taken for key k
Dispatch(k) ==
  LET branch == KeyBranch(k)
  IN CASE branch = "contextSelector" -> KeyContextSelector(k)
       [] branch = "timeframeInput" -> KeyTimeframeInput(k)
       [] branch = "namespaceSelector" -> KeyNamespaceSelector(k)
       [] branch = "search" -> KeySearchMode(k)
       [] branch = "normal" -> KeyNormalMode(k)
       [] OTHER -> UNCHANGED dispatchVars

\* the whole tea.KeyMsg case; tea.Quit ends the program
KeyMsg(k) ==
  /\ Running
  /\ lastEvent' = Event("key", KeyBranch(k))
  /\ quit' = (KeyBranch(k) = "quit")
  /\ Dispatch(k)
  /\ UNCHANGED << isLoading, isConnected, initError, kubeConfig, nodesTable, now,
                  connectCmd, nodesTasks, eventsTasks, panicked >>
  /\ UNCHANGED << dialogVars, viewerVars >>

\* ---------------------------------------------------------------------------
\* The session: every message of the inbox, every render, every goroutine step
\* ---------------------------------------------------------------------------
ConnectOutcomes == {"ok", "connectFailed", "noKubeconfig", "noContexts"}

Outcomes == Reasons \cup {NoError}

\* a call that succeeds or times out
RefreshOutcomes == {NoError, "timeout"}

\* the results of the commands in flight
ResultMessages ==
  \/ \E outcome \in ConnectOutcomes, cur \in ContextNames :
       ConnectionResultMsg(outcome, cur) /\ Bounded'
  \/ \E i \in 1..Len(contextCmds), err \in Outcomes :
       ContextConnectionResultMsg(i, err) /\ Bounded'

\* the steps of the goroutines the tables' refreshes start
TaskSteps ==
  \/ NodesTaskBegin /\ Bounded'
  \/ \E task \in BagToSet(nodesTasks), err \in Outcomes :
       NodesTaskEnd(task, err) /\ Bounded'
  \/ EventsTaskBegin /\ Bounded'
  \/ \E task \in BagToSet(eventsTasks), err \in Outcomes :
       \E events \in EventsOf(task.ctx, task.tf) : EventsTaskEnd(task, err, events) /\ Bounded'

\* the whole program: every message of the inbox, every render, every goroutine
Next ==
  \/ ResultMessages
  \/ TickMsg /\ Bounded'
  \/ \E k \in Keys : KeyMsg(k) /\ Bounded'
  \/ \E ok \in BOOLEAN : View(ok) /\ Bounded'
  \/ TaskSteps

Spec == Init /\ [][Next]_vars

\* the input router: a user pressing any key while the cluster answers every
\* validation
KeysNext ==
  \/ \E outcome \in ConnectOutcomes :
       ConnectionResultMsg(outcome, Contexts[1]) /\ Bounded'
  \/ \E i \in 1..Len(contextCmds) :
       ContextConnectionResultMsg(i, NoError) /\ Bounded'
  \/ \E k \in Keys : KeyMsg(k) /\ Bounded'

SpecKeys == Init /\ [][KeysNext]_vars

\* the connection manager: a user driving the context picker and the menu
ConnKeys == {"ctrl+q", "esc", "enter", "up", "down", "backspace", "ctrl+k", "1"}

ConnNext ==
  \/ \E outcome \in ConnectOutcomes, cur \in ContextNames :
       ConnectionResultMsg(outcome, cur) /\ Bounded'
  \/ \E i \in 1..Len(contextCmds), err \in Outcomes :
       ContextConnectionResultMsg(i, err) /\ Bounded'
  \/ TickMsg /\ Bounded'
  \/ \E k \in ConnKeys : KeyMsg(k) /\ Bounded'

SpecConn == Init /\ [][ConnNext]_vars

\* the refresh of the tables: a user walking the menu while time passes, frames
\* are rendered and the goroutines run
FetchKeys == {"down", "enter", "1"}

FetchNext ==
  \/ \E cur \in ContextNames : ConnectionResultMsg("ok", cur) /\ Bounded'
  \/ TickMsg /\ Bounded'
  \/ \E k \in FetchKeys : KeyMsg(k) /\ Bounded'
  \/ \E ok \in BOOLEAN : View(ok) /\ Bounded'
  \/ NodesTaskBegin /\ Bounded'
  \/ \E task \in BagToSet(nodesTasks), err \in Outcomes :
       NodesTaskEnd(task, err) /\ Bounded'
  \/ EventsTaskBegin /\ Bounded'
  \/ \E task \in BagToSet(eventsTasks), err \in Outcomes :
       \E events \in EventsOf(task.ctx, task.tf) : EventsTaskEnd(task, err, events) /\ Bounded'

SpecFetch == Init /\ [][FetchNext]_vars

\* EventsTable.HandleTimeframeInput as a function: any text, on any events table
TimeframeTexts ==
  { <<>>, <<"0">>, <<"1">>, <<"4", "5">>, <<"a", "b", "c">>, <<"4", "a">>, <<"-", "5">>,
    <<"+", "4", "5">>, <<"1", "4", "4", "0">>, <<"1", "4", "4", "1">>,
    <<"9", "9", "9", "9", "9">> }

FetchedTimeframes == {DefaultTimeframe, 45}

EventsTables ==
  UNION { { [nil |-> FALSE, events |-> ev, lastUpdate |-> lu, contextName |-> Contexts[1],
             timeframeMin |-> tf, isLoading |-> l, error |-> e]
            : ev \in EventsOf(Contexts[1], tf), lu \in {ZeroTime, 0},
              l \in BOOLEAN, e \in Outcomes }
          : tf \in FetchedTimeframes }

TimeframeInit ==
  /\ isLoading = FALSE
  /\ isConnected = TRUE
  /\ initError = ""
  /\ focusedPane = FocusRightPane
  /\ kubeConfig = NilKubeConfig
  /\ contextSelector = NilContextSelector
  /\ namespaceSelector = NilNamespaceSelector
  /\ timeframeInputPane = NewTimeframeInput
  /\ leftPane = NewLeftPane
  /\ rightPane = NewRightPane
  /\ nodesTable = NilNodesTable
  /\ eventsTable \in EventsTables
  /\ notifications = <<>>
  /\ now = 0
  /\ connectCmd = FALSE
  /\ contextCmds = <<>>
  /\ nodesTasks = EmptyBag
  /\ eventsTasks = EmptyBag
  /\ quit = FALSE
  /\ panicked = FALSE
  /\ lastEvent = Event("init", "")
  /\ confirmationDialog = NewConfirmationDialog
  /\ deleteCalls = 0
  /\ yamlViewer = NewYAMLViewer
  /\ yamlTasks = <<>>
  /\ logsViewer = NewLogsViewer
  /\ logsTasks = <<>>
  /\ podsTable = NewPodsTable

\* et.HandleTimeframeInput(input)
HandleTimeframeInputCall(input) ==
  /\ eventsTable' = HandleTimeframeInput(eventsTable, input)[1]
  /\ lastEvent' = Event("timeframe", [input |-> input, before |-> eventsTable,
                                      err |-> HandleTimeframeInput(eventsTable, input)[2]])
  /\ UNCHANGED << isLoading, isConnected, initError, focusedPane, kubeConfig,
                  contextSelector, namespaceSelector, timeframeInputPane, leftPane,
                  rightPane, nodesTable, notifications, now, taskVars, quit, panicked >>
  /\ UNCHANGED << dialogVars, viewerVars >>

TimeframeNext == \E input \in TimeframeTexts : HandleTimeframeInputCall(input)

SpecTimeframe == TimeframeInit /\ [][TimeframeNext]_vars

\* the timeframe overlay: a user who walks the menu and types timeframes
InputKeys == {"down", "enter", "t", "0", "2", "esc", "backspace", "1"}

InputNext ==
  \/ ConnectionResultMsg("ok", Contexts[1]) /\ Bounded'
  \/ TickMsg /\ Bounded'
  \/ \E k \in InputKeys : KeyMsg(k) /\ Bounded'

SpecInput == Init /\ [][InputNext]_vars

\* the overlays: a user who opens and closes them while the cluster answers,
\* time passes and frames are rendered
OverlayKeys == {"ctrl+k", "ctrl+n", "t", "esc", "enter", "down"}

OverlayNext ==
  \/ \E outcome \in ConnectOutcomes :
       ConnectionResultMsg(outcome, Contexts[1]) /\ Bounded'
  \/ \E i \in 1..Len(contextCmds), err \in RefreshOutcomes :
       ContextConnectionResultMsg(i, err) /\ Bounded'
  \/ TickMsg /\ Bounded'
  \/ \E k \in OverlayKeys : KeyMsg(k) /\ Bounded'
  \/ View(TRUE) /\ Bounded'

SpecOverlay == Init /\ [][OverlayNext]_vars

\* the menu: a user who walks, expands, searches and selects
MenuKeys == {"/", "o", "p", "enter", "esc", "up", "down", "backspace", "1", "2"}

MenuNext ==
  \/ ConnectionResultMsg("ok", Contexts[1]) /\ Bounded'
  \/ \E k \in MenuKeys : KeyMsg(k) /\ Bounded'

SpecMenu == Init /\ [][MenuNext]_vars

\* the confirmation dialog under any order of calls
DialogNext ==
  \/ \E action \in PodActions, podName \in PodNames, namespace \in PodNamespaces :
       DialogOpen(action, podName, namespace)
  \/ DialogMoveLeft
  \/ DialogMoveRight
  \/ DialogClose
  \/ DialogConfirm

SpecDialog == Init /\ [][DialogNext]_vars

\* the refresh intervals: a user who picks one view and stays on it, and may
\* change the events timeframe, while the clock runs past the intervals and the
\* view's goroutines run one at a time
RefreshBounded ==
  /\ Len(timeframeInputPane.input) <= MaxQuery
  /\ now <= MaxClock
  /\ BagCardinality(nodesTasks) <= 1
  /\ BagCardinality(eventsTasks) <= 1
  /\ Len(notifications) <= MaxNotifs

RefreshKeys == {"down", "enter", "t", "2"}

RefreshNext ==
  \/ ConnectionResultMsg("ok", Contexts[1]) /\ RefreshBounded'
  \/ TickMsg /\ RefreshBounded'
  \/ \E k \in RefreshKeys : KeyMsg(k) /\ RefreshBounded'
  \/ NodesTaskBegin /\ RefreshBounded'
  \/ \E task \in BagToSet(nodesTasks), err \in RefreshOutcomes :
       NodesTaskEnd(task, err) /\ RefreshBounded'
  \/ EventsTaskBegin /\ RefreshBounded'
  \/ \E task \in BagToSet(eventsTasks), err \in RefreshOutcomes :
       \E events \in EventsOf(task.ctx, task.tf) :
         EventsTaskEnd(task, err, events) /\ RefreshBounded'

SpecRefresh == Init /\ [][RefreshNext]_vars

\* ---------------------------------------------------------------------------
\* Properties of the input router (SpecKeys)
\* ---------------------------------------------------------------------------
\* the last step was a key handled by the named branch
LastKey(branch) == lastEvent.kind = "key" /\ lastEvent.detail = branch

\* C1: a key goes to the first open target in the order context selector,
\* timeframe input, namespace selector, menu search, normal mode, and leaves
\* every target after it as it was: the overlays below it, the menu (cursor,
\* query, selection, search flag) and the focus; a key the menu search takes
\* runs no global binding of normal mode, so it opens no overlay.
C1_FirstOpenTargetConsumes ==
  [][ lastEvent'.kind = "key" =>
        /\ ContextSelectorIsOpen =>
             UNCHANGED << timeframeInputPane, eventsTable, namespaceSelector, leftPane,
                          focusedPane, rightPane >>
        /\ ~ContextSelectorIsOpen /\ TimeframeInputIsOpen =>
             UNCHANGED << namespaceSelector, leftPane, focusedPane, rightPane >>
        /\ ~ContextSelectorIsOpen /\ ~TimeframeInputIsOpen /\ NamespaceSelectorIsOpen =>
             UNCHANGED << leftPane, focusedPane, rightPane >>
        /\ /\ ~ContextSelectorIsOpen /\ ~TimeframeInputIsOpen /\ ~NamespaceSelectorIsOpen
           /\ InSearchMode
           => UNCHANGED << contextSelector, timeframeInputPane, namespaceSelector >>
    ]_vars

\* the timeframe input took the key "1", which in normal mode moves the focus
C1_Witness ==
  /\ LastKey("timeframeInput")
  /\ timeframeInputPane.isOpen
  /\ timeframeInputPane.input = << "1" >>
  /\ focusedPane = FocusRightPane

\* C2: in every state of the running program (loading, fatal error, an overlay
\* open, a validation in progress, menu search) the quit key can be pressed and
\* its handler returns tea.Quit.
C2_QuitAlwaysHonored == Running => ENABLED (KeyMsg(QuitKey) /\ quit')

\* the quit key was honoured while a validation was in progress
C2_Witness ==
  /\ quit
  /\ LastKey("quit")
  /\ ContextSelectorIsOpen
  /\ contextSelector.isConnecting

\* ---------------------------------------------------------------------------
\* Properties of the connection manager (SpecConn)
\* ---------------------------------------------------------------------------
\* C3: while the context selector is open and connecting, a key other than
\* quit changes nothing of the model and starts no command.
C3_ConnectingSwallowsKeys ==
  [][ /\ lastEvent'.kind = "key"
      /\ ~quit'
      /\ ContextSelectorIsOpen
      /\ contextSelector.isConnecting
      => UNCHANGED << uiVars, taskVars >>
    ]_vars

\* a key was swallowed by the isConnecting check with a validation in flight
C3_Witness == LastKey("connecting") /\ Len(contextCmds) = 1

\* what a namespace selector lists once it holds the namespaces of a context
ListedNamespaces(ctx) == << AllNamespaces >> \o ClusterNamespaces(ctx)

\* C4: after the handler of a successful validation result has run to its end,
\* the candidate is the current context, the namespace list is the candidate's,
\* the newest notification is the success notification, the selector is
\* neither connecting nor in error, and the selector is closed.
C4_SuccessCommits ==
  lastEvent.kind = "contextConnected" /\ ~panicked =>
    /\ kubeConfig.CurrentContext = lastEvent.detail.context
    /\ ~namespaceSelector.nil
    /\ namespaceSelector.namespaces = ListedNamespaces(lastEvent.detail.context)
    /\ Len(notifications) > 0
    /\ notifications[1].Type = NotificationSuccess
    /\ notifications[1].Title = "Context switched"
    /\ ~contextSelector.isConnecting
    /\ contextSelector.connectionError = ""
    /\ ~contextSelector.isOpen

\* C5: a failed validation result puts the reason in the selector, leaves it
\* open, leaves the current context, the namespace selector, the connected flag
\* and the tables as they were, and leaves no trace of the candidate: the
\* selector's selected context is still the current context.
C5_FailureAppliesNothing ==
  [][ lastEvent'.kind = "contextFailed" /\ contextCmds' # contextCmds =>
        /\ contextSelector'.connectionError = lastEvent'.detail.err
        /\ ~contextSelector'.isConnecting
        /\ contextSelector'.isOpen
        /\ UNCHANGED << kubeConfig, namespaceSelector, isConnected, nodesTable,
                        eventsTable >>
        /\ contextSelector'.selectedContext = kubeConfig'.CurrentContext
    ]_vars

\* C6: at most one validation command is in flight, and only while the
\* selector is open and connecting.
C6_OneValidationInFlight ==
  /\ Len(contextCmds) <= 1
  /\ Len(contextCmds) = 1 => ContextSelectorIsOpen /\ contextSelector.isConnecting

\* a second request (a key pressed during the validation) left one command
C6_Witness ==
  /\ LastKey("connecting")
  /\ Len(contextCmds) = 1
  /\ contextSelector.selectedContext # kubeConfig.CurrentContext

\* C7: escape in the open selector changes nothing while not connected and
\* closes the selector once connected (a key pressed during a validation never
\* reaches the escape case); isConnected never goes back to false.
C7_EscapeNeedsConnection ==
  [][ /\ isConnected => isConnected'
      /\ KeyMsg("esc") /\ ContextSelectorIsOpen /\ ~isConnected =>
           UNCHANGED << uiVars, taskVars >>
      /\ KeyMsg("esc") /\ KeyBranch("esc") = "contextSelector" /\ isConnected =>
           ~contextSelector'.isOpen
    ]_vars

\* escape closed the selector of a connected program
C7_Witness ==
  /\ LastKey("contextSelector")
  /\ isConnected
  /\ ~contextSelector.isOpen

\* C8: a successful validation is applied whatever failed before it: the
\* program is alive and connected, the candidate is current, the namespace list
\* is refreshed and the selector is closed.
C8_RecoversAfterFailure ==
  lastEvent.kind = "contextConnected" =>
    /\ ~panicked
    /\ isConnected
    /\ kubeConfig.CurrentContext = lastEvent.detail.context
    /\ ~namespaceSelector.nil
    /\ namespaceSelector.namespaces = ListedNamespaces(lastEvent.detail.context)
    /\ ~contextSelector.isOpen

\* ---------------------------------------------------------------------------
\* Properties of the table refreshes (SpecFetch)
\* ---------------------------------------------------------------------------
\* C9: at most one fetch of the nodes and one of the events is outstanding.
C9_OneFetchPerKind ==
  /\ BagCardinality(nodesTasks) <= 1
  /\ BagCardinality(eventsTasks) <= 1

\* C10: a step of a background goroutine writes no table: items, time of the
\* last fetch, loading flag and error change only in steps of the event loop.
C10_TasksWriteNoState ==
  [][ lastEvent'.kind = "task" => UNCHANGED << nodesTable, eventsTable >> ]_vars

\* ---------------------------------------------------------------------------
\* Properties of the refresh intervals and of what the tables show (SpecRefresh)
\* ---------------------------------------------------------------------------
\* this step applies the result of a successful fetch to the table on screen
NodesFetched ==
  \E task \in BagToSet(nodesTasks) : ~task.orphan /\ NodesTaskEnd(task, NoError)

EventsFetched ==
  \E task \in BagToSet(eventsTasks) : ~task.orphan /\
    \E events \in EventsOf(task.ctx, task.tf) : EventsTaskEnd(task, NoError, events)

\* this step is Enter in the timeframe input
TimeframeEntered == KeyMsg("enter") /\ lastEvent'.detail = "timeframeInput"

\* a table is born due, is not due right after a successful fetch, and stays due
\* until a successful fetch is applied (a failed one changes nothing)
RefreshDueUntilFetched ==
  /\ nodesTable.nil /\ ~nodesTable'.nil => NodesShouldUpdate(nodesTable', now')
  /\ eventsTable.nil /\ ~eventsTable'.nil => EventsShouldUpdate(eventsTable', now')
  /\ NodesFetched => ~NodesShouldUpdate(nodesTable', now')
  /\ EventsFetched => ~EventsShouldUpdate(eventsTable', now')
  /\ NodesShouldUpdate(nodesTable, now) /\ ~NodesFetched
       => NodesShouldUpdate(nodesTable', now')
  /\ EventsShouldUpdate(eventsTable, now) /\ ~EventsFetched
       => EventsShouldUpdate(eventsTable', now')

NodesDueAgain == ~NodesShouldUpdate(nodesTable, now) /\ NodesShouldUpdate(nodesTable', now')

EventsDueAgain ==
  ~EventsShouldUpdate(eventsTable, now) /\ EventsShouldUpdate(eventsTable', now')

C12_FailureKeepsItemsOnScreen ==
  /\ ~nodesTable.nil /\ nodesTable.error # NoError /\ Len(nodesTable.nodes) > 0
       => NodesTableRender(nodesTable) = "table"
  /\ ~eventsTable.nil /\ eventsTable.error # NoError /\ Len(eventsTable.events) > 0
       => EventsTableRender(eventsTable) = "table"

\* this step applies the result of a fetch, successful or not
NodesResult ==
  \E task \in BagToSet(nodesTasks), err \in RefreshOutcomes : NodesTaskEnd(task, err)

EventsResult ==
  \E task \in BagToSet(eventsTasks), err \in RefreshOutcomes :
    \E events \in EventsOf(task.ctx, task.tf) : EventsTaskEnd(task, err, events)

Blank == {"loading", "empty"}

\* C13: once a table draws fetched items, no step other than the arrival of a
\* fetch result (a refresh going in flight, a tick, a timeframe change) makes
\* it draw the full-screen loading message or an empty table.
C13_DataStaysOnScreen ==
  [][ /\ NodesTableRender(nodesTable) = "table" /\ ~NodesResult
           => NodesTableRender(nodesTable') \notin Blank
      /\ EventsTableRender(eventsTable) = "table" /\ ~EventsResult
           => EventsTableRender(eventsTable') \notin Blank ]_vars

\* ---------------------------------------------------------------------------
\* Properties of the timeframe validation (SpecTimeframe)
\* ---------------------------------------------------------------------------
\* the minutes a text stands for when it is a number from 1 to 1440, else 0
Minutes(text) ==
  CASE text \in { <<"1">> } -> 1
    [] text \in { <<"4", "5">>, <<"+", "4", "5">> } -> 45
    [] text = <<"1", "4", "4", "0">> -> 1440
    [] OTHER -> 0

\* C14: a timeframe text that is not a number or is outside 1..1440 ("0", "abc",
\* "99999") is rejected with an error and leaves the timeframe, the time of the
\* last fetch and the cached events as they were; a text within 1..1440 ("45")
\* sets the timeframe and resets the time of the last fetch, so that the table
\* is due for a refresh.
C14_TimeframeValidated ==
  lastEvent.kind = "timeframe" =>
    LET before == lastEvent.detail.before
        minutes == Minutes(lastEvent.detail.input)
    IN IF minutes = 0
       THEN /\ lastEvent.detail.err
            /\ eventsTable.timeframeMin = before.timeframeMin
            /\ eventsTable.lastUpdate = before.lastUpdate
            /\ eventsTable.events = before.events
       ELSE /\ ~lastEvent.detail.err
            /\ eventsTable.timeframeMin = minutes
            /\ eventsTable.lastUpdate = ZeroTime
            /\ EventsShouldUpdate(eventsTable, now)

\* an out-of-range text was rejected on a table that had been fetched, and a
\* valid one was applied to it
C14_Witness ==
  /\ lastEvent.kind = "timeframe"
  /\ lastEvent.detail.before.lastUpdate # ZeroTime
  /\ lastEvent.detail.before.events # <<>>
  /\ \/ lastEvent.detail.input = <<"9", "9", "9", "9", "9">> /\ lastEvent.detail.err
     \/ lastEvent.detail.input = <<"4", "5">> /\ eventsTable.timeframeMin = 45

\* ---------------------------------------------------------------------------
\* Properties of the timeframe overlay (SpecInput)
\* ---------------------------------------------------------------------------
\* the text in the overlay is a timeframe the events table accepts
InputIsValid ==
  /\ timeframeInputPane.input # <<>>
  /\ ~HandleTimeframeInput(eventsTable, timeframeInputPane.input)[2]

\* C15: Enter in the timeframe overlay with an invalid value ("0") adds an error
\* notification and leaves the overlay open; the overlay closes only on a valid
\* value or on Escape.  (Stated for an overlay that holds some text.)
C15_InvalidKeepsOverlayOpen ==
  [][ timeframeInputPane.isOpen /\ timeframeInputPane.input # <<>> =>
        /\ KeyMsg("enter") /\ ~InputIsValid
             => /\ timeframeInputPane'.isOpen
                /\ \E i \in 1..Len(notifications') :
                     notifications'[i].Type = NotificationError
        /\ ~timeframeInputPane'.isOpen
             => KeyMsg("esc") \/ (KeyMsg("enter") /\ InputIsValid) ]_vars

\* ---------------------------------------------------------------------------
\* Properties of the confirmation dialog (SpecDialog)
\* ---------------------------------------------------------------------------
\* C16: confirming the open dialog with the cursor on No reports not-confirmed and
\* no delete call is made; confirming after the cursor was moved to Yes reports
\* confirmed and exactly one delete call is made; the dialog is closed afterwards
\* in both cases.
C16_ConfirmFollowsCursor ==
  lastEvent.kind = "dialogConfirm" /\ lastEvent.detail.isOpen =>
    /\ ~confirmationDialog.isOpen
    /\ deleteCalls = IF lastEvent.detail.cursor = CursorYes THEN 1 ELSE 0

\* C17: whenever the dialog is opened, its cursor is on No and confirmed is
\* false, whatever was done with the dialog before.
C17_OpensOnNo ==
  lastEvent.kind = "dialogOpen" =>
    /\ confirmationDialog.isOpen
    /\ confirmationDialog.cursor = CursorNo
    /\ ~confirmationDialog.confirmed

\* the open dialog, its cursor on Yes, was opened again for another action
C17_Witness ==
  /\ lastEvent.kind = "dialogOpen"
  /\ lastEvent.detail.isOpen
  /\ lastEvent.detail.cursor = CursorYes
  /\ confirmationDialog.action = ActionRestart

\* ---------------------------------------------------------------------------
\* Properties of the overlays (SpecOverlay)
\* ---------------------------------------------------------------------------
OpenOverlays ==
  (IF ContextSelectorIsOpen THEN {"contextSelector"} ELSE {})
    \cup (IF TimeframeInputIsOpen THEN {"timeframeInput"} ELSE {})
    \cup (IF NamespaceSelectorIsOpen THEN {"namespaceSelector"} ELSE {})

\* C18: at most one overlay is open: the context picker, the timeframe input and
\* the namespace picker are never open together, whatever keys, ticks, frames
\* and results arrive.
C18_OneOverlay == Cardinality(OpenOverlays) <= 1

\* the namespace picker is open and has just consumed a key, while the context
\* picker exists and could be opened
C18_Witness ==
  /\ OpenOverlays = {"namespaceSelector"}
  /\ ~contextSelector.nil
  /\ lastEvent = Event("key", "namespaceSelector")

\* ---------------------------------------------------------------------------
\* Properties of the menu (SpecMenu)
\* ---------------------------------------------------------------------------
\* the cursor is on a row of the menu as shown
OnRow == leftPane.Cursor < Len(GetVisibleItems(leftPane))

Row == GetVisibleItems(leftPane)[leftPane.Cursor + 1]

\* a root without children or a child row
RowIsLeaf == Row.Parent # 0 \/ ~Row.IsFolder

\* the resource a leaf row stands for
RowResource ==
  IF Row.Parent = 0 THEN Row.Name
  ELSE SelectedChildName(leftPane.NavItems[Row.Parent].Name, Row.Name)

\* this step is Enter handled by the menu, with the cursor on a row
EnterOnRow ==
  /\ KeyMsg("enter")
  /\ \/ lastEvent'.detail = "search"
     \/ lastEvent'.detail = "normal" /\ focusedPane = FocusLeftPane
  /\ OnRow

\* the expanded flags of the menu, with the flag of the cursor's root flipped
ExpandedFlipped ==
  [i \in 1..Len(leftPane.NavItems) |->
     IF leftPane.NavItems[i].Name = Row.Name
     THEN ~leftPane.NavItems[i].Expanded ELSE leftPane.NavItems[i].Expanded]

\* C19: Enter on a menu row moves the focus to the content pane, sets the active
\* resource and leaves search mode exactly when the row is a leaf (a root
\* without children, or a child row); Enter on a folder row only flips the
\* folder's expanded flag: focus, active resource and search mode stay.
C19_EnterSelectsLeavesOnly ==
  [][ EnterOnRow =>
        IF RowIsLeaf
        THEN /\ focusedPane' = FocusRightPane
             /\ leftPane'.SelectedItem = RowResource
             /\ rightPane'.SelectedItem = RowResource
             /\ ~leftPane'.SearchMode /\ ~rightPane'.SearchMode
             /\ leftPane'.NavItems = leftPane.NavItems
        ELSE /\ focusedPane' = focusedPane
             /\ leftPane'.SelectedItem = leftPane.SelectedItem
             /\ rightPane'.SelectedItem = rightPane.SelectedItem
             /\ leftPane'.SearchMode = leftPane.SearchMode
             /\ rightPane'.SearchMode = rightPane.SearchMode
             /\ leftPane'.SearchQuery = leftPane.SearchQuery
             /\ [i \in 1..Len(leftPane.NavItems) |-> leftPane'.NavItems[i].Expanded]
                  = ExpandedFlipped ]_vars

\* a child row found by a search was selected: search mode is over, the child is
\* the active resource and the content pane has the focus
C19_Witness ==
  /\ lastEvent = Event("key", "search")
  /\ ~leftPane.SearchMode
  /\ focusedPane = FocusRightPane
  /\ rightPane.SelectedItem = SelectedChildName(NameWorkloads, NamePods)

\* the rows of the menu after the step that have the name and the parent of the
\* row the cursor was on before it
SameRowAfter ==
  LET shown == GetVisibleItems(leftPane')
  IN { i \in 1..Len(shown) :
         /\ shown[i].Name = Row.Name
         /\ \/ shown[i].Parent = 0 /\ Row.Parent = 0
            \/ /\ shown[i].Parent # 0 /\ Row.Parent # 0
               /\ leftPane'.NavItems[shown[i].Parent].Name
                    = leftPane.NavItems[Row.Parent].Name }

\* C20: when search mode is left (a leaf was selected, or Escape), the cursor ends
\* on the row of the unfiltered menu that has the name and the parent of the row
\* it was on in the filtered menu, if that row is shown there, and on row 0
\* otherwise; the query and the filtered list are cleared.
C20_CursorFollowsRow ==
  [][ leftPane.SearchMode /\ ~leftPane'.SearchMode =>
        /\ leftPane'.SearchQuery = <<>>
        /\ leftPane'.FilteredItems = <<>>
        /\ IF OnRow /\ SameRowAfter # {}
           THEN leftPane'.Cursor + 1 \in SameRowAfter
           ELSE leftPane'.Cursor = 0 ]_vars

\* search mode was left from a row that stands further down in the full menu
\* than it stood in the filtered one
C20_Witness ==
  /\ lastEvent = Event("key", "search")
  /\ ~leftPane.SearchMode
  /\ leftPane.Cursor = 2
  /\ GetVisibleItems(leftPane)[3].Name = NameWorkloads
  /\ focusedPane = FocusLeftPane

NameNamespaces == <<"N", "a", "m", "e", "s", "p", "a", "c", "e", "s">>

\* the fallback menu of loadFromJSON in reduced form: an expanded first folder,
\* a leaf root, and a folder with a child that has the name of a root
FallbackNavItems ==
  << [Name |-> NameOverview, Items |-> <<NameNamespaces, NameEvents>>, Expanded |-> TRUE],
     [Name |-> NameNodes, Items |-> <<>>, Expanded |-> FALSE],
     [Name |-> NameWorkloads, Items |-> <<NameOverview, NamePods>>, Expanded |-> FALSE] >>

TreeMenus == {GetInitialNavItems, FallbackNavItems}

\* a menu with every combination of expanded flags on its folders
WithFlags(navItems) ==
  { [i \in 1..Len(navItems) |-> [navItems[i] EXCEPT !.Expanded = flags[i]]] :
      flags \in { f \in [1..Len(navItems) -> BOOLEAN] :
                    \A i \in 1..Len(navItems) : Len(navItems[i].Items) = 0 => ~f[i] } }

\* the left panes the menu can be in outside search mode: any menu, any flags,
\* the cursor on any row
LeftPanes ==
  UNION { UNION { { [NewLeftPane EXCEPT !.NavItems = navItems, !.Cursor = c] :
                      c \in 0..(Len(FlattenFrom(navItems, 1)) - 1) } :
                  navItems \in WithFlags(menu) } :
          menu \in TreeMenus }

TreeInit ==
  /\ isLoading = FALSE
  /\ isConnected = TRUE
  /\ initError = ""
  /\ focusedPane = FocusLeftPane
  /\ kubeConfig = NilKubeConfig
  /\ contextSelector = NilContextSelector
  /\ namespaceSelector = NilNamespaceSelector
  /\ timeframeInputPane = NewTimeframeInput
  /\ leftPane \in LeftPanes
  /\ rightPane = NewRightPane
  /\ nodesTable = NilNodesTable
  /\ eventsTable = NilEventsTable
  /\ notifications = <<>>
  /\ now = 0
  /\ connectCmd = FALSE
  /\ contextCmds = <<>>
  /\ nodesTasks = EmptyBag
  /\ eventsTasks = EmptyBag
  /\ quit = FALSE
  /\ panicked = FALSE
  /\ lastEvent = Event("init", "")
  /\ confirmationDialog = NewConfirmationDialog
  /\ deleteCalls = 0
  /\ yamlViewer = NewYAMLViewer
  /\ yamlTasks = <<>>
  /\ logsViewer = NewLogsViewer
  /\ logsTasks = <<>>
  /\ podsTable = NewPodsTable

TreeBounded == Len(leftPane.SearchQuery) <= MaxSearch

TreeKeys == {"/", "enter", "esc", "up", "down", "backspace", "n", "s", "1"}

TreeNext == \E k \in TreeKeys : KeyMsg(k) /\ TreeBounded'

SpecTree == TreeInit /\ [][TreeNext]_vars

\* the cursor is on a root row that has children
OnFolderRow ==
  /\ OnRow
  /\ Row.Parent = 0
  /\ getNavItemIndex(leftPane, Row.Name) >= 0
  /\ Len(leftPane.NavItems[getNavItemIndex(leftPane, Row.Name) + 1].Items) > 0

ToggledOnce == ToggleExpand(leftPane)[1]

ToggledTwice == ToggleExpand(ToggledOnce)[1]

C22_CursorClamped ==
  LET rows == Len(GetVisibleItems(leftPane))
  IN IF rows > 0
     THEN leftPane.Cursor >= 0 /\ leftPane.Cursor <= rows - 1
     ELSE leftPane.Cursor = 0

\* in search mode the query was edited to one that matches no row: the visible
\* list is empty and the cursor is 0
C22_WitnessEmpty ==
  /\ lastEvent = Event("key", "search")
  /\ leftPane.SearchMode
  /\ leftPane.SearchQuery = <<"n", "n">>
  /\ GetVisibleItems(leftPane) = <<>>
  /\ leftPane.Cursor = 0

NamePodcast == <<"p", "o", "d", "c", "a", "s", "t">>

NamePodA == <<"p", "o", "d", "-", "a">>

NameApod == <<"a", "p", "o", "d">>

NameDop == <<"d", "o", "p">>

NameUpperPodA == <<"P", "o", "d", "-", "A">>

\* candidate lists of a picker: names of contexts or of namespaces
PickerLists ==
  { <<NamePodcast, NamePodA, NameApod>>,
    <<NameApod, NameDop, NameUpperPodA, NamePodcast>> }

\* a connected session with one picker open on a candidate list: the context
\* picker, or the namespace picker (whose list starts with the all-namespaces
\* entry)
PickerInit ==
  /\ isLoading = FALSE
  /\ isConnected = TRUE
  /\ initError = ""
  /\ focusedPane = FocusLeftPane
  /\ kubeConfig = NilKubeConfig
  /\ \E list \in PickerLists :
       \/ /\ contextSelector = NewContextSelector(list, list[1])
          /\ namespaceSelector = NilNamespaceSelector
       \/ /\ contextSelector = NilContextSelector
          /\ namespaceSelector = NamespaceSelectorOpen(NewNamespaceSelector(list, list[1]))
  /\ timeframeInputPane = NewTimeframeInput
  /\ leftPane = NewLeftPane
  /\ rightPane = NewRightPane
  /\ nodesTable = NilNodesTable
  /\ eventsTable = NilEventsTable
  /\ notifications = <<>>
  /\ now = 0
  /\ connectCmd = FALSE
  /\ contextCmds = <<>>
  /\ nodesTasks = EmptyBag
  /\ eventsTasks = EmptyBag
  /\ quit = FALSE
  /\ panicked = FALSE
  /\ lastEvent = Event("init", "")
  /\ confirmationDialog = NewConfirmationDialog
  /\ deleteCalls = 0
  /\ yamlViewer = NewYAMLViewer
  /\ yamlTasks = <<>>
  /\ logsViewer = NewLogsViewer
  /\ logsTasks = <<>>
  /\ podsTable = NewPodsTable

PickerBounded ==
  /\ Len(contextSelector.SearchQuery) <= MaxPick
  /\ Len(namespaceSelector.SearchQuery) <= MaxPick

PickerKeys == {"p", "o", "d", "P", "backspace", "down", "up"}

PickerNext == \E k \in PickerKeys : KeyMsg(k) /\ PickerBounded'

SpecPicker == PickerInit /\ [][PickerNext]_vars

ContextPicker == ~contextSelector.nil

PickerCandidates ==
  IF ContextPicker THEN contextSelector.contexts ELSE namespaceSelector.namespaces

PickerQuery ==
  IF ContextPicker THEN contextSelector.SearchQuery ELSE namespaceSelector.SearchQuery

PickerFiltered ==
  IF ContextPicker THEN contextSelector.filteredContexts
  ELSE namespaceSelector.filteredNamespaces

PickerCursor == IF ContextPicker THEN contextSelector.cursor ELSE namespaceSelector.cursor

\* the match as the open picker calls it: on the lowercased candidate and query
PickerMatch(candidate, query) ==
  IF ContextPicker THEN fuzzyMatchContext(ToLower(candidate), ToLower(query))
  ELSE fuzzyMatch(ToLower(candidate), ToLower(query))

\* q can be read off c from left to right, skipping characters of c
RECURSIVE IsSubsequence(_, _)
IsSubsequence(q, c) ==
  \/ q = <<>>
  \/ \E k \in 1..Len(c) :
       /\ c[k] = q[Len(q)]
       /\ IsSubsequence(SubSeq(q, 1, Len(q) - 1), SubSeq(c, 1, k - 1))

\* C23: the pickers' match of a candidate against a query is true exactly when
\* the lowercased query is an in-order, not necessarily contiguous, subsequence
\* of the lowercased candidate; for the empty query it is true for every
\* candidate.
C23_MatchIsSubsequence ==
  \A i \in 1..Len(PickerCandidates) :
    LET candidate == PickerCandidates[i]
    IN /\ PickerMatch(candidate, PickerQuery)
            <=> IsSubsequence(ToLower(PickerQuery), ToLower(candidate))
       /\ PickerQuery = <<>> => PickerMatch(candidate, PickerQuery)

\* the namespace picker was given the query Pd: podcast matches it with
\* characters skipped, pod-a and apod match, dop does not
C23_Witness ==
  /\ lastEvent = Event("key", "namespaceSelector")
  /\ namespaceSelector.SearchQuery = <<"P", "d">>
  /\ PickerMatch(NamePodcast, PickerQuery)
  /\ ~Contains(NamePodcast, ToLower(PickerQuery))
  /\ ~PickerMatch(NameDop, PickerQuery)
  /\ \E i \in 1..Len(PickerFiltered) : PickerFiltered[i] = NamePodcast
  /\ \E i \in 1..Len(PickerCandidates) : PickerCandidates[i] = NameDop
  /\ \A i \in 1..Len(PickerFiltered) : PickerFiltered[i] # NameDop

\* the two tiers of the ranking: prefix matches, then the other subsequence
\* matches, each in the order of the candidate list
Rank(candidates, query) ==
  LET q == ToLower(query)
  IN SelectSeq(candidates, LAMBDA c : HasPrefix(ToLower(c), q))
     \o SelectSeq(candidates, LAMBDA c : /\ ~HasPrefix(ToLower(c), q)
                                         /\ IsSubsequence(q, ToLower(c)))

\* C24: after a step with a non-empty picker query the filtered list is the
\* candidates whose lowercase form has the lowercased query as a prefix, in
\* original order, followed by the remaining candidates that match it as a
\* subsequence, in original order; candidates that do not match are left out
\* and none is listed twice. A step that changes the query leaves the picker
\* cursor at 0.
C24_TwoTierRanking ==
  [][ /\ PickerQuery' # <<>> =>
           /\ PickerFiltered' = Rank(PickerCandidates', PickerQuery')
           /\ \A i, j \in 1..Len(PickerFiltered') :
                PickerFiltered'[i] = PickerFiltered'[j] => i = j
           /\ \A i \in 1..Len(PickerCandidates') :
                (\E j \in 1..Len(PickerFiltered') :
                   PickerFiltered'[j] = PickerCandidates'[i])
                  <=> IsSubsequence(ToLower(PickerQuery'), ToLower(PickerCandidates'[i]))
      /\ PickerQuery' # PickerQuery => PickerCursor' = 0 ]_vars

\* the namespace picker ranked a list by the query pod: the two prefix matches
\* come before apod, which stands first in the list, and dop is left out
C24_Witness ==
  /\ lastEvent = Event("key", "namespaceSelector")
  /\ namespaceSelector.namespaces
       = <<AllNamespaces, NameApod, NameDop, NameUpperPodA, NamePodcast>>
  /\ namespaceSelector.SearchQuery = <<"p", "o", "d">>
  /\ namespaceSelector.filteredNamespaces = <<NameUpperPodA, NamePodcast, NameApod>>
  /\ namespaceSelector.cursor = 0

\* a picker holds the candidates podcast, pod-a, apod in that order (the
\* namespace picker after its all-namespaces entry) and the query pod
RankingExample ==
  /\ PickerQuery = <<"p", "o", "d">>
  /\ \/ ContextPicker /\ PickerCandidates = <<NamePodcast, NamePodA, NameApod>>
     \/ /\ ~ContextPicker
        /\ PickerCandidates = <<AllNamespaces, NamePodcast, NamePodA, NameApod>>

\* C25 as stated: ranking podcast, pod-a, apod with the query pod yields
\* pod-a, podcast, apod.
C25_ExampleAsStated ==
  RankingExample => PickerFiltered = <<NamePodA, NamePodcast, NameApod>>

\* C25: ranking the candidates podcast, pod-a, apod (in that order) with the
\* query pod yields podcast, pod-a, apod: the two prefix matches in their
\* original order, then the subsequence-only match.
C25_ExampleKeepsOrder ==
  RankingExample => PickerFiltered = <<NamePodcast, NamePodA, NameApod>>

\* the context picker was given the query pod over podcast, pod-a, apod
C25_Witness ==
  /\ lastEvent = Event("key", "contextSelector")
  /\ ContextPicker
  /\ RankingExample
  /\ PickerFiltered = <<NamePodcast, NamePodA, NameApod>>

\* the FuzzyFilter match of a menu label: case-insensitive in-order subsequence
LabelMatches(name, query) == IsSubsequence(ToLower(query), ToLower(name))

\* the rows the filtered menu lists for root i under the stated policy
MatchedRows(navItems, i, query) ==
  LET item == navItems[i]
      children == [j \in 1..Len(item.Items) |-> VisibleChild(item.Items[j], i)]
      rootMatches == LabelMatches(item.Name, query)
      childMatches == \E j \in 1..Len(item.Items) : LabelMatches(item.Items[j], query)
  IN IF rootMatches \/ childMatches
     THEN <<VisibleRoot(item)>>
          \o SelectSeq(children, LAMBDA v : rootMatches \/ LabelMatches(v.Name, query))
     ELSE <<>>

RECURSIVE MatchedFrom(_, _, _)
MatchedFrom(navItems, i, query) ==
  IF i > Len(navItems) THEN <<>>
  ELSE MatchedRows(navItems, i, query) \o MatchedFrom(navItems, i + 1, query)

\* C26: with a non-empty query the filtered menu lists exactly the roots whose
\* name matches the query as a case-insensitive in-order subsequence or that
\* have a matching child; all children under a root whose own name matches,
\* only the matching children otherwise; whatever the expanded flags are.
C26_MenuFilterIsFuzzy ==
  leftPane.SearchMode /\ leftPane.SearchQuery # <<>> =>
    GetVisibleItems(leftPane) = MatchedFrom(leftPane.NavItems, 1, leftPane.SearchQuery)

NotifyBounded ==
  /\ Len(timeframeInputPane.input) <= MaxQuery
  /\ now <= MaxAge
  /\ BagCardinality(nodesTasks) <= 1
  /\ BagCardinality(eventsTasks) <= 1
  /\ Len(notifications) <= MaxQueue

NotifyKeys == {"down", "enter", "t", "0", "2"}

\* the events pane with its timeframe input, which queues a success or an error
\* notification on Enter, while ticks pass
NotifyNext ==
  \/ ConnectionResultMsg("ok", Contexts[1]) /\ NotifyBounded'
  \/ TickMsg /\ NotifyBounded'
  \/ View(TRUE) /\ NotifyBounded'
  \/ \E k \in NotifyKeys : KeyMsg(k) /\ NotifyBounded'
  \/ EventsTaskBegin /\ NotifyBounded'
  \/ \E task \in BagToSet(eventsTasks) :
       \E events \in EventsOf(task.ctx, task.tf) :
         EventsTaskEnd(task, NoError, events) /\ NotifyBounded'

SpecNotify == Init /\ [][NotifyNext]_vars

\* a notification's time to live has run out at time t
Expired(n, t) == t - n.Timestamp >= n.Duration

\* C27: a tick removes every notification whose age has reached its time to live
\* and keeps every other one, in the order they had; right after a tick no
\* expired notification is in the queue.
C27_TickRemovesExpired ==
  [][ TickMsg =>
        /\ notifications' = SelectSeq(notifications, LAMBDA n : ~Expired(n, now'))
        /\ \A i \in 1..Len(notifications') : ~Expired(notifications'[i], now') ]_vars

\* after a tick the queue holds one error notification that is six seconds old:
\* a success notification of that age has been removed by an earlier tick
C27_Witness ==
  /\ lastEvent = Event("tick", "")
  /\ Len(notifications) = 1
  /\ notifications[1].Type = NotificationError
  /\ now - notifications[1].Timestamp = 6

\* ---------------------------------------------------------------------------
\* the YAML and logs viewers under their callers' calls and their goroutines
\* ---------------------------------------------------------------------------
ViewerUnchanged ==
  UNCHANGED << uiVars, taskVars, now, quit, panicked, dialogVars, podsTable >>

\* the pods the YAML overlay is opened for
YamlPods == {"api", "db"}

\* Open: the goroutines of earlier Opens are stale from now on
YamlOpen(podName) ==
  /\ yamlViewer' = YAMLViewerOpen(yamlViewer, podName)
  /\ yamlTasks' = Append([i \in 1..Len(yamlTasks) |-> [yamlTasks[i] EXCEPT !.stale = TRUE]],
                         [pc |-> "start", podName |-> "", stale |-> FALSE])
  /\ lastEvent' = Event("yamlOpen", podName)
  /\ UNCHANGED << logsViewer, logsTasks >>
  /\ ViewerUnchanged

YamlClose ==
  /\ yamlViewer' = YAMLViewerClose(yamlViewer)
  /\ lastEvent' = Event("yamlClose", "")
  /\ UNCHANGED << yamlTasks, logsViewer, logsTasks >>
  /\ ViewerUnchanged

\* a fetchYAML goroutine starts to run: it reads the viewer's pod and calls
\* GetPodYAML
YamlFetchStart(i) ==
  /\ i \in 1..Len(yamlTasks)
  /\ yamlTasks[i].pc = "start"
  /\ yamlTasks' = [yamlTasks EXCEPT ![i].pc = "call", ![i].podName = yamlViewer.podName]
  /\ lastEvent' = Event("yamlTask", "start")
  /\ UNCHANGED << yamlViewer, logsViewer, logsTasks >>
  /\ ViewerUnchanged

\* a fetchYAML goroutine gets its answer and writes it
YamlFetchEnd(i, err) ==
  /\ i \in 1..Len(yamlTasks)
  /\ yamlTasks[i].pc = "call"
  /\ yamlViewer' = fetchYAML(yamlViewer, yamlTasks[i].podName, err)
  /\ yamlTasks' = SubSeq(yamlTasks, 1, i - 1) \o SubSeq(yamlTasks, i + 1, Len(yamlTasks))
  /\ lastEvent' = Event("yamlTask", err)
  /\ UNCHANGED << logsViewer, logsTasks >>
  /\ ViewerUnchanged

\* the sizes of the tail the first GetPodLogs call returns
InitialLines == {0, VisibleLines}

\* lv.Open(...): the fields are reset and fetchLogs is started
LogsOpen ==
  /\ logsViewer' = LogsViewerOpen(logsViewer)
  /\ logsTasks' = Append(logsTasks, [pc |-> "start", left |-> 0, cancelled |-> FALSE])
  /\ lastEvent' = Event("logsOpen", "")
  /\ UNCHANGED << yamlViewer, yamlTasks >>
  /\ ViewerUnchanged

\* lv.Close(): the stored cancel function, if there is one, ends its context
LogsClose ==
  /\ logsViewer' = LogsViewerClose(logsViewer)
  /\ logsTasks' = IF logsViewer.cancel # 0
                  THEN [logsTasks EXCEPT ![logsViewer.cancel].cancelled = TRUE]
                  ELSE logsTasks
  /\ lastEvent' = Event("logsClose", "")
  /\ UNCHANGED << yamlViewer, yamlTasks >>
  /\ ViewerUnchanged

LogsTaskUnchanged ==
  /\ UNCHANGED << yamlViewer, yamlTasks >>
  /\ ViewerUnchanged

\* fetchLogs stores its cancel function and asks for the tail of the log
LogsFetchStart(i, err, lines) ==
  /\ logsTasks[i].pc = "start"
  /\ logsViewer' = [logsViewer EXCEPT !.cancel = i,
                                      !.error = IF err # NoError THEN err ELSE @]
  /\ logsTasks' = [logsTasks EXCEPT ![i].pc = IF err # NoError THEN "done" ELSE "initial",
                                    ![i].left = IF err # NoError THEN 0 ELSE lines]
  /\ lastEvent' = Event("logsTask", "start")
  /\ LogsTaskUnchanged

\* one line of the tail is appended
LogsInitialLine(i) ==
  /\ logsTasks[i].pc = "initial"
  /\ logsTasks[i].left > 0
  /\ logsViewer' = [logsViewer EXCEPT !.logs = @ + 1]
  /\ logsTasks' = [logsTasks EXCEPT ![i].left = @ - 1]
  /\ lastEvent' = Event("logsTask", "initial")
  /\ LogsTaskUnchanged

\* the tail is read: fetchLogs asks for the follow stream and starts its reader
LogsInitialDone(i, err) ==
  /\ logsTasks[i].pc = "initial"
  /\ logsTasks[i].left = 0
  /\ logsViewer' = [logsViewer EXCEPT !.error = IF err # NoError THEN err ELSE @]
  /\ logsTasks' = [logsTasks EXCEPT ![i].pc = IF err # NoError THEN "done" ELSE "follow"]
  /\ lastEvent' = Event("logsTask", "stream")
  /\ LogsTaskUnchanged

\* the reader got a line and looks at its context
LogsFollowScan(i) ==
  /\ logsTasks[i].pc = "follow"
  /\ logsTasks' = [logsTasks EXCEPT ![i].pc = IF logsTasks[i].cancelled THEN "done"
                                               ELSE "line"]
  /\ lastEvent' = Event("logsTask", "scan")
  /\ UNCHANGED logsViewer
  /\ LogsTaskUnchanged

\* the reader appends the line, trims the buffer and scrolls when following
LogsFollowAppend(i) ==
  /\ logsTasks[i].pc = "line"
  /\ logsViewer' = AppendFollowed(logsViewer)
  /\ logsTasks' = [logsTasks EXCEPT ![i].pc = "follow"]
  /\ lastEvent' = Event("logsTask", "append")
  /\ LogsTaskUnchanged

\* the stream ends
LogsFollowEnd(i) ==
  /\ logsTasks[i].pc = "follow"
  /\ logsTasks' = [logsTasks EXCEPT ![i].pc = "done"]
  /\ lastEvent' = Event("logsTask", "end")
  /\ UNCHANGED logsViewer
  /\ LogsTaskUnchanged

ViewerBounded ==
  /\ Len(yamlTasks) <= MaxOpens
  /\ Len(logsTasks) <= MaxOpens
  /\ logsViewer.logs <= MaxLines

ViewerNext ==
  \/ \E podName \in YamlPods : YamlOpen(podName) /\ ViewerBounded'
  \/ YamlClose /\ ViewerBounded'
  \/ \E i \in 1..Len(yamlTasks) : YamlFetchStart(i) /\ ViewerBounded'
  \/ \E i \in 1..Len(yamlTasks), err \in RefreshOutcomes :
       YamlFetchEnd(i, err) /\ ViewerBounded'
  \/ LogsOpen /\ ViewerBounded'
  \/ LogsClose /\ ViewerBounded'
  \/ \E i \in 1..Len(logsTasks), err \in RefreshOutcomes, lines \in InitialLines :
       LogsFetchStart(i, err, lines) /\ ViewerBounded'
  \/ \E i \in 1..Len(logsTasks) : LogsInitialLine(i) /\ ViewerBounded'
  \/ \E i \in 1..Len(logsTasks), err \in RefreshOutcomes :
       LogsInitialDone(i, err) /\ ViewerBounded'
  \/ \E i \in 1..Len(logsTasks) : LogsFollowScan(i) /\ ViewerBounded'
  \/ \E i \in 1..Len(logsTasks) : LogsFollowAppend(i) /\ ViewerBounded'
  \/ \E i \in 1..Len(logsTasks) : LogsFollowEnd(i) /\ ViewerBounded'

SpecViewers == Init /\ [][ViewerNext]_vars

\* this step is a step of a fetchLogs goroutine or of its reader
LogsTaskStep ==
  \E i \in 1..Len(logsTasks) :
    \/ \E err \in RefreshOutcomes, lines \in InitialLines : LogsFetchStart(i, err, lines)
    \/ LogsInitialLine(i)
    \/ \E err \in RefreshOutcomes : LogsInitialDone(i, err)
    \/ LogsFollowScan(i)
    \/ LogsFollowAppend(i)
    \/ LogsFollowEnd(i)

YamlTaskStep ==
  \E i \in 1..Len(yamlTasks) :
    YamlFetchStart(i) \/ \E err \in RefreshOutcomes : YamlFetchEnd(i, err)

\* C28: closing the logs overlay or the YAML overlay ends its background task:
\* once Close has returned and the overlay is closed, no step of a background
\* task appends to the log buffer or moves the scroll offset, and none writes
\* the YAML content, error or loading flag, whatever the interleaving.
C28_CloseEndsTasks ==
  [][ /\ ~logsViewer.isOpen /\ LogsTaskStep =>
           /\ logsViewer'.logs = logsViewer.logs
           /\ logsViewer'.scrollOffset = logsViewer.scrollOffset
      /\ ~yamlViewer.isOpen /\ YamlTaskStep =>
           /\ yamlViewer'.yamlContent = yamlViewer.yamlContent
           /\ yamlViewer'.error = yamlViewer.error
           /\ yamlViewer'.isLoading = yamlViewer.isLoading ]_vars

\* C29: producing a frame is a pure read: a render changes no session state
\* (overlay open flags, connection state, the notification list, cached
\* snapshots and their timestamps) and neither makes nor starts a cluster call.
C29_ViewIsPureRead ==
  [][ (\E ok \in BOOLEAN : View(ok)) =>
        UNCHANGED << uiVars, taskVars, now, quit, panicked, dialogVars, viewerVars >> ]_vars

\* this step handles a key other than the quit key
OtherKeyStep == \E k \in Keys \ {QuitKey} : KeyMsg(k)

\* C30: after startup ended in a configuration error (no kubeconfig, or no
\* contexts) every key other than quit leaves the whole state as it is, and no
\* later event clears the error or opens an overlay; keys other than quit also
\* leave the state as it is while the initial connection is loading.
C30_ConfigErrorIsFatal ==
  [][ /\ (initError # "" \/ isLoading) /\ OtherKeyStep =>
           UNCHANGED << uiVars, taskVars, now, quit, panicked, dialogVars, viewerVars >>
      /\ initError # "" =>
           /\ initError' = initError
           /\ OpenOverlays' = {}
           /\ ~leftPane'.SearchMode ]_vars

\* startup ended without contexts, time has passed and a key was swallowed
C30_Witness ==
  /\ initError = "Failed to connect to cluster"
  /\ ~isLoading
  /\ now > 0
  /\ lastEvent = Event("key", "loading")

\* the view RightPane.Render draws for the selected item: the first of
\* overview, nodes, events whose name the item contains
RenderedView(item) ==
  IF item = <<>> THEN "welcome"
  ELSE IF OverviewSelected(item) THEN "overview"
  ELSE IF NodesSelected(item) THEN "nodes"
  ELSE IF EventsSelected(item) THEN "events"
  ELSE "placeholder"

EditorKeys == {"enter", "down", "up", "t", "esc", "1", "2", "/"}

\* the menus of both builds under the keys that select a resource and open the
\* timeframe input
EditorNext == \E k \in EditorKeys : KeyMsg(k) /\ Bounded'

SpecEditor == TreeInit /\ [][EditorNext]_vars

\* C31: the timeframe editor is reachable only from the events view: the t key
\* opens it exactly when no overlay is open, the content pane has the focus and
\* the content pane displays the events view; whenever the timeframe input is
\* open, the events view is the displayed resource.
C31_EditorOnlyOnEvents ==
  [][ /\ KeyMsg("t") =>
           ((~timeframeInputPane.isOpen /\ timeframeInputPane'.isOpen)
              <=> /\ OpenOverlays = {}
                  /\ focusedPane = FocusRightPane
                  /\ RenderedView(rightPane.SelectedItem) = "events")
      /\ timeframeInputPane'.isOpen =>
           RenderedView(rightPane'.SelectedItem) = "events" ]_vars

\* what cancelling an overlay must leave alone: focus, active resource, menu
\* cursor, expanded flags, search mode, committed context, selected namespace
SessionView ==
  << focusedPane, leftPane.SelectedItem, rightPane.SelectedItem, leftPane.Cursor,
     [i \in 1..Len(leftPane.NavItems) |-> leftPane.NavItems[i].Expanded],
     leftPane.SearchMode, rightPane.SearchMode, kubeConfig.CurrentContext,
     namespaceSelector.selectedNamespace >>

\* a step that opens an overlay or happens while one is open, and is neither a
\* commit by Enter nor the arrival of a connection result
UncommittedOverlayStep ==
  /\ OpenOverlays # {} \/ OpenOverlays' # {}
  /\ lastEvent'.kind \in {"key", "tick", "view"}
  /\ ~KeyMsg("enter")

\* C32: in a connected session, opening the namespace picker, the timeframe
\* input or the context picker and cancelling it with Escape restores the state
\* before opening: no step from the opening key to the Escape, whatever is
\* typed or moved inside the overlay meanwhile, changes the focus, the active
\* resource, the menu cursor, the expanded flags, search mode, the committed
\* context or the selected namespace, and the Escape closes the overlay.
C32_CancelRestores ==
  [][ isConnected /\ UncommittedOverlayStep =>
        /\ SessionView' = SessionView
        /\ KeyMsg("esc") /\ OpenOverlays # {} => OpenOverlays' = {} ]_vars

\* the context picker of a connected session was closed by Escape (Enter would
\* have left it open and connecting)
C32_Witness ==
  /\ isConnected
  /\ lastEvent = Event("key", "contextSelector")
  /\ ~contextSelector.isOpen
  /\ ~contextSelector.isConnecting
  /\ leftPane.Cursor > 0

\* the program at its start in either build: the menu of part_008 or the
\* fallback menu of part_007
BuildInit ==
  /\ isLoading = TRUE
  /\ isConnected = FALSE
  /\ initError = ""
  /\ focusedPane = FocusLeftPane
  /\ kubeConfig = NilKubeConfig
  /\ contextSelector = NilContextSelector
  /\ namespaceSelector = NilNamespaceSelector
  /\ timeframeInputPane = NewTimeframeInput
  /\ \E menu \in TreeMenus : leftPane = [NewLeftPane EXCEPT !.NavItems = menu]
  /\ rightPane = NewRightPane
  /\ nodesTable = NilNodesTable
  /\ eventsTable = NilEventsTable
  /\ notifications = <<>>
  /\ now = 0
  /\ connectCmd = TRUE
  /\ contextCmds = <<>>
  /\ nodesTasks = EmptyBag
  /\ eventsTasks = EmptyBag
  /\ quit = FALSE
  /\ panicked = FALSE
  /\ lastEvent = Event("init", "")
  /\ confirmationDialog = NewConfirmationDialog
  /\ deleteCalls = 0
  /\ yamlViewer = NewYAMLViewer
  /\ yamlTasks = <<>>
  /\ logsViewer = NewLogsViewer
  /\ logsTasks = <<>>
  /\ podsTable = NewPodsTable

BuildKeys == {"down", "enter"}

BuildNext ==
  \/ ConnectionResultMsg("ok", Contexts[1]) /\ Bounded'
  \/ TickMsg /\ Bounded'
  \/ View(TRUE) /\ Bounded'
  \/ \E k \in BuildKeys : KeyMsg(k) /\ Bounded'
  \/ NodesTaskBegin /\ Bounded'
  \/ \E task \in BagToSet(nodesTasks) : NodesTaskEnd(task, NoError) /\ Bounded'
  \/ EventsTaskBegin /\ Bounded'
  \/ \E task \in BagToSet(eventsTasks) :
       \E events \in EventsOf(task.ctx, task.tf) :
         EventsTaskEnd(task, NoError, events) /\ Bounded'

SpecBuild == BuildInit /\ [][BuildNext]_vars

\* this step starts a goroutine that fetches nodes / events
NodesFetchStarted == CopiesIn(NewTask, nodesTasks') > CopiesIn(NewTask, nodesTasks)

EventsFetchStarted == CopiesIn(NewTask, eventsTasks') > CopiesIn(NewTask, eventsTasks)

\* C33: refreshes are requested only for the resource kind the content pane
\* displays and only while connected: a tick or a render starts a nodes fetch
\* only if the displayed resource is the nodes view and an events fetch only if
\* it is the events view, so that no fetch of a kind is started once another
\* resource is displayed.
C33_FetchOnlyDisplayedKind ==
  [][ /\ NodesFetchStarted =>
           isConnected /\ RenderedView(rightPane.SelectedItem) = "nodes"
      /\ EventsFetchStarted =>
           isConnected /\ RenderedView(rightPane.SelectedItem) = "events" ]_vars

\* C34: the refresh scheduler honours the cadence of each kind: an events fetch
\* is started only at a moment when shouldRefresh is true, that is not before
\* more than 15 s have passed since the last successful events fetch (30 s for
\* nodes); the ticks in between start no fetch.
C34_FetchOnlyWhenDue ==
  [][ /\ EventsFetchStarted => EventsShouldUpdate(eventsTable, now')
      /\ NodesFetchStarted => NodesShouldUpdate(nodesTable, now') ]_vars

\* a connected session with Events selected and the content pane focused: the
\* state after the connection result and the keys that select the events view
QueueInit ==
  /\ isLoading = FALSE
  /\ isConnected = TRUE
  /\ initError = ""
  /\ focusedPane = FocusRightPane
  /\ kubeConfig = [nil |-> FALSE, CurrentContext |-> Contexts[1], Contexts |-> Contexts]
  /\ contextSelector = ContextSelectorClose(NewContextSelector(Contexts, Contexts[1]))
  /\ namespaceSelector = NewNamespaceSelector(ClusterNamespaces(Contexts[1]), <<>>)
  /\ timeframeInputPane = NewTimeframeInput
  /\ leftPane = [NewLeftPane EXCEPT !.SelectedItem = NameEvents, !.Cursor = 3]
  /\ rightPane = [NewRightPane EXCEPT !.SelectedItem = NameEvents, !.KubeConfig = TRUE]
  /\ nodesTable = NewNodesTable(Contexts[1])
  /\ eventsTable = NewEventsTable(Contexts[1])
  /\ notifications = <<>>
  /\ now = 0
  /\ connectCmd = FALSE
  /\ contextCmds = <<>>
  /\ nodesTasks = EmptyBag
  /\ eventsTasks = EmptyBag
  /\ quit = FALSE
  /\ panicked = FALSE
  /\ lastEvent = Event("init", "")
  /\ confirmationDialog = NewConfirmationDialog
  /\ deleteCalls = 0
  /\ yamlViewer = NewYAMLViewer
  /\ yamlTasks = <<>>
  /\ logsViewer = NewLogsViewer
  /\ logsTasks = <<>>
  /\ podsTable = NewPodsTable

QueueBounded ==
  /\ Len(timeframeInputPane.input) <= MaxQuery
  /\ now <= MaxStamp

QueueKeys == {"enter", "t", "2"}

\* the timeframe input of the events view: every Enter on an input queues a
\* notification, ticks expire them
QueueNext ==
  \/ TickMsg /\ QueueBounded'
  \/ \E k \in QueueKeys : KeyMsg(k) /\ QueueBounded'

SpecQueue == QueueInit /\ [][QueueNext]_vars

\* this step is the Enter that submits a typed timeframe: it queues a notification
NotificationAdded ==
  /\ KeyMsg("enter")
  /\ KeyBranch("enter") = "timeframeInput"
  /\ timeframeInputPane.input # <<>>
  /\ ~eventsTable.nil

\* C35: the notification queue is bounded: after any adds and expiries it holds
\* at most 10 notifications, ordered newest first, and an add to a full queue
\* drops the oldest one: the new notification is the head and the nine newest
\* of before follow it.
C35_QueueBounded ==
  [][ /\ Len(notifications') <= NotificationLimit
      /\ \A i, j \in 1..Len(notifications') :
           i < j => notifications'[i].Timestamp >= notifications'[j].Timestamp
      /\ NotificationAdded =>
           /\ notifications'[1].Timestamp = now
           /\ Tail(notifications')
                = SubSeq(notifications, 1,
                         IF Len(notifications) = NotificationLimit
                         THEN NotificationLimit - 1 ELSE Len(notifications)) ]_vars

\* an add found the queue full: the queue still holds 10, its head was added
\* now and its oldest entry is younger than the oldest of the clock
C35_Witness ==
  /\ lastEvent = Event("key", "timeframeInput")
  /\ Len(notifications) = NotificationLimit
  /\ notifications[1].Timestamp = now
  /\ notifications[NotificationLimit].Timestamp = 1
  /\ now = 4

\* the branches of the key handler that belong to the two-pane interface
MainBranches == {"timeframeInput", "namespaceSelector", "search", "normal"}

\* the first connection attempt has delivered its result and the configuration
\* could be read
AttemptFinished == ~isLoading /\ initError = ""

\* C36: once the initial connection attempt has finished without a fatal
\* configuration error, a session that is not connected has the context picker
\* open, and a key reaches the menu, the namespace picker or the timeframe
\* input only in a connected session.
C36_DisconnectedShowsPicker ==
  AttemptFinished =>
    /\ ~isConnected => ContextSelectorIsOpen
    /\ \A k \in OverlayKeys : KeyBranch(k) \in MainBranches => isConnected

\* the first attempt failed and so did the validation of the context chosen in
\* the picker that came up: the session is not connected and the picker is open
C36_Witness ==
  /\ AttemptFinished
  /\ ~isConnected
  /\ lastEvent.kind = "contextFailed"
  /\ ContextSelectorIsOpen
  /\ ~contextSelector.isConnecting
  /\ contextSelector.connectionError = "timeout"

\* a context switch while the tables refresh: a connected user who selects
\* Nodes or Events, opens the picker and validates a context while frames,
\* ticks and the fetch goroutines run
SwitchKeys == {"ctrl+k", "down", "enter"}

SwitchNext ==
  \/ ConnectionResultMsg("ok", Contexts[1]) /\ Bounded'
  \/ \E i \in 1..Len(contextCmds), err \in RefreshOutcomes :
       ContextConnectionResultMsg(i, err) /\ Bounded'
  \/ TickMsg /\ Bounded'
  \/ \E k \in SwitchKeys : KeyMsg(k) /\ Bounded'
  \/ View(TRUE) /\ Bounded'
  \/ NodesTaskBegin /\ Bounded'
  \/ \E task \in BagToSet(nodesTasks), err \in RefreshOutcomes :
       NodesTaskEnd(task, err) /\ Bounded'
  \/ EventsTaskBegin /\ Bounded'
  \/ \E task \in BagToSet(eventsTasks), err \in RefreshOutcomes :
       \E events \in EventsOf(task.ctx, task.tf) : EventsTaskEnd(task, err, events) /\ Bounded'

SpecSwitch == Init /\ [][SwitchNext]_vars

\* this step applies a successful validation of a context
SwitchApplied == lastEvent'.kind = "contextConnected" /\ ~panicked'

\* this step is the return of a nodes (events) call made under another context
\* than the committed one
StaleNodesReturn ==
  /\ lastEvent' = Event("task", "nodes")
  /\ \E task \in BagToSet(nodesTasks) :
       /\ task.pc = "call"
       /\ task.ctx # kubeConfig.CurrentContext
       /\ nodesTasks' = BagRemove(nodesTasks, task)

StaleEventsReturn ==
  /\ lastEvent' = Event("task", "events")
  /\ \E task \in BagToSet(eventsTasks) :
       /\ task.pc = "call"
       /\ task.ctx # kubeConfig.CurrentContext
       /\ eventsTasks' = BagRemove(eventsTasks, task)

\* the calls that this step started
CallsStarted(before, after) ==
  { t \in BagToSet(after) : t.pc = "call" /\ CopiesIn(t, after) > CopiesIn(t, before) }

\* C37: a successful context switch isolates the cached data: when it is
\* applied the nodes and events snapshots are empty and never fetched, belong to
\* the committed context, the active resource is Overview and the menu has the
\* focus; every fetch started afterwards calls the committed context; and the
\* return of a call made under the previous context leaves the snapshots on
\* display alone, so that they only ever hold data of the committed context.
C37_SwitchIsolatesCaches ==
  [][ /\ SwitchApplied =>
           /\ kubeConfig'.CurrentContext = lastEvent'.detail.context
           /\ nodesTable' = NewNodesTable(kubeConfig'.CurrentContext)
           /\ eventsTable' = NewEventsTable(kubeConfig'.CurrentContext)
           /\ nodesTable'.nodes = <<>> /\ nodesTable'.lastUpdate = ZeroTime
           /\ eventsTable'.events = <<>> /\ eventsTable'.lastUpdate = ZeroTime
           /\ leftPane'.SelectedItem = NameOverview
           /\ rightPane'.SelectedItem = NameOverview
           /\ focusedPane' = FocusLeftPane
      /\ ~panicked =>
           /\ \A t \in CallsStarted(nodesTasks, nodesTasks') \cup
                       CallsStarted(eventsTasks, eventsTasks') :
                ~t.orphan => t.ctx = kubeConfig.CurrentContext
           /\ StaleNodesReturn => nodesTable' = nodesTable
           /\ StaleEventsReturn => eventsTable' = eventsTable
      /\ (isConnected' /\ ~panicked') =>
           /\ nodesTable'.nodes \in {<<>>, NodesOf(kubeConfig'.CurrentContext)}
           /\ \A i \in 1..Len(eventsTable'.events) :
                eventsTable'.events[i].ctx = kubeConfig'.CurrentContext ]_vars

\* a nodes call made under the first context returned after the switch to the
\* second: the table on display belongs to the second context and holds nothing
C37_Witness ==
  /\ lastEvent = Event("task", "nodes")
  /\ kubeConfig.CurrentContext = Contexts[2]
  /\ nodesTable = NewNodesTable(Contexts[2])
  /\ nodesTasks = EmptyBag
  /\ \E i \in 1..Len(notifications) : notifications[i].Title = "Context switched"

\* ---------------------------------------------------------------------------
\* The pods table under any order of refreshes, searches and cursor moves
\* ---------------------------------------------------------------------------
PodsUnchanged ==
  UNCHANGED << uiVars, taskVars, now, quit, panicked, dialogVars, yamlViewer, yamlTasks,
               logsViewer, logsTasks >>

\* a refresh: Update runs and GetPods answers
PodsRefresh(pods, err) ==
  /\ podsTable' = PodsTableUpdate(podsTable, pods, err)
  /\ lastEvent' = Event("podsUpdate", err)
  /\ PodsUnchanged

PodsToggleSearch ==
  /\ podsTable' = PodsTableToggleSearchMode(podsTable)
  /\ lastEvent' = Event("podsToggleSearch", "")
  /\ PodsUnchanged

\* the characters typed into the pod search
PodSearchChars == {"a", "P", "2"}

\* a character is typed into the search or deleted from it
PodsSearchEdit(query) ==
  /\ podsTable.searchMode
  /\ \/ \E c \in PodSearchChars : query = Append(podsTable.searchQuery, c)
     \/ podsTable.searchQuery # <<>> /\ query = DropLast(podsTable.searchQuery)
  /\ podsTable' = PodsTableUpdateSearch(podsTable, query)
  /\ lastEvent' = Event("podsSearch", "")
  /\ PodsUnchanged

PodsMoveUp ==
  /\ podsTable' = PodsTableMoveUp(podsTable)
  /\ lastEvent' = Event("podsMoveUp", "")
  /\ PodsUnchanged

PodsMoveDown ==
  /\ podsTable' = PodsTableMoveDown(podsTable)
  /\ lastEvent' = Event("podsMoveDown", "")
  /\ PodsUnchanged

PodsBounded == Len(podsTable.searchQuery) <= MaxSearch

PodsNext ==
  \/ \E pods \in PodAnswers, err \in RefreshOutcomes : PodsRefresh(pods, err) /\ PodsBounded'
  \/ PodsToggleSearch /\ PodsBounded'
  \/ \E query \in UNION { [1..n -> PodSearchChars] : n \in 0..MaxSearch } : PodsSearchEdit(query) /\ PodsBounded'
  \/ PodsMoveUp /\ PodsBounded'
  \/ PodsMoveDown /\ PodsBounded'

SpecPods == Init /\ [][PodsNext]_vars

\* C38: after any sequence of pod refreshes, search edits, search toggles and
\* cursor moves the cursor of the pods table indexes an existing row whenever the
\* filtered list is non-empty, so that the selected pod is defined.
C38_PodCursorInRange ==
  podsTable.filteredPods # <<>> =>
    /\ 0 <= podsTable.cursor
    /\ podsTable.cursor < Len(podsTable.filteredPods)
    /\ GetSelectedPod(podsTable) # <<>>

\* ---------------------------------------------------------------------------
\* The YAML overlay opened for one pod after another
\* ---------------------------------------------------------------------------
YamlBounded == Len(yamlTasks) <= MaxYamlOpens

YamlNext ==
  \/ \E podName \in YamlPods : YamlOpen(podName) /\ YamlBounded'
  \/ YamlClose /\ YamlBounded'
  \/ \E i \in 1..Len(yamlTasks) : YamlFetchStart(i) /\ YamlBounded'
  \/ \E i \in 1..Len(yamlTasks), err \in RefreshOutcomes :
       YamlFetchEnd(i, err) /\ YamlBounded'

SpecYaml == Init /\ [][YamlNext]_vars

\* this step is the return of a fetch that an Open before the latest started
StaleYamlReturn ==
  \E i \in 1..Len(yamlTasks), err \in RefreshOutcomes :
    yamlTasks[i].stale /\ YamlFetchEnd(i, err)

\* C39: the YAML viewer shows the manifest (or error) of the pod it was opened
\* for last: the return of a fetch started by an earlier Open leaves the
\* content, the error and the loading flag of the later Open alone, a closed
\* viewer holds no content, and an open viewer that holds content holds the
\* manifest of its pod.
C39_LatestOpenWins ==
  [][ /\ StaleYamlReturn =>
           /\ yamlViewer'.yamlContent = yamlViewer.yamlContent
           /\ yamlViewer'.error = yamlViewer.error
           /\ yamlViewer'.isLoading = yamlViewer.isLoading
      /\ ~yamlViewer'.isOpen => yamlViewer'.yamlContent = <<>>
      /\ (yamlViewer'.isOpen /\ yamlViewer'.yamlContent # <<>>) =>
           yamlViewer'.yamlContent = PodYAML(yamlViewer'.podName) ]_vars

\* ---------------------------------------------------------------------------
\* Connections under fair delivery: a command that was started delivers its
\* result message to Update (bubbletea runs every tea.Cmd in a goroutine and
\* sends what it returns; GetNamespaces ends by its timeout)
\* ---------------------------------------------------------------------------
LiveKeys == {"ctrl+k", "enter", "down", "esc"}

\* the first attempt connects or fails with a readable kubeconfig
LiveOutcomes == {"ok", "connectFailed"}

InitialResult == \E outcome \in LiveOutcomes : ConnectionResultMsg(outcome, Contexts[1])

ValidationResult ==
  \E i \in 1..Len(contextCmds), err \in RefreshOutcomes : ContextConnectionResultMsg(i, err)

LiveNext ==
  \/ InitialResult
  \/ ValidationResult
  \/ \E k \in LiveKeys : KeyMsg(k)

SpecLive ==
  Init /\ [][LiveNext]_vars /\ WF_vars(InitialResult) /\ WF_vars(ValidationResult)

\* keys other than quit are dropped: the first attempt is loading, or the
\* picker is validating a context
KeysSwallowed ==
  isLoading \/ (ContextSelectorIsOpen /\ contextSelector.isConnecting)

\* keys other than quit are handled: the picker is closed on a connected
\* session, or it is open, idle and shows an error
KeysProcessed ==
  /\ Running
  /\ ~isLoading
  /\ initError = ""
  /\ \/ ~ContextSelectorIsOpen /\ isConnected
     \/ /\ ContextSelectorIsOpen
        /\ ~contextSelector.isConnecting
        /\ contextSelector.connectionError # ""

\* C40: input is never locked forever: when every started connection attempt
\* delivers its result, a state in which keys are swallowed (loading, or the
\* picker connecting) is followed by a state in which keys other than quit are
\* processed again, with the picker closed and the candidate committed or with
\* the picker open and showing an error.
C40_InputUnlocks == KeysSwallowed ~> KeysProcessed

====
